---------------------------- MODULE Spec2Model ----------------------------
(***************************************************************************)
(* Model of the git-monitor application: the debounced commit watcher      *)
(* (monitor), the structural policy validator (validator) and the          *)
(* archive/compress/upload pipeline (backup).                              *)
(*                                                                         *)
(* Paths, prefixes and messages are strings.  Where the source looks       *)
(* inside a string (Contains, Split, HasPrefix, regular expressions) the   *)
(* model works on its characters, a sequence of one-character strings      *)
(* given by Chars, and Str turns characters back into a string.            *)
(***************************************************************************)
EXTENDS Integers, Sequences, FiniteSets, TLC

\* ------------------------------------------------------------------------
\* Text helpers (Go strings / path/filepath on a '/'-separated platform)
\* ------------------------------------------------------------------------

Lowers == {"a","b","c","d","e","f","g","h","i","j","k","l","m",
           "n","o","p","q","r","s","t","u","v","w","x","y","z"}

Uppers == {"A","B","C","D","E","F","G","H","I","J","K","L","M",
           "N","O","P","Q","R","S","T","U","V","W","X","Y","Z"}

Digits == {"0","1","2","3","4","5","6","7","8","9"}

UpperSeq == <<"A", "B", "C", "D", "E", "F", "G", "H", "I", "J", "K", "L", "M", "N", "O", "P", "Q", "R", "S", "T", "U", "V", "W", "X", "Y", "Z">>

LowerSeq == <<"a", "b", "c", "d", "e", "f", "g", "h", "i", "j", "k", "l", "m", "n", "o", "p", "q", "r", "s", "t", "u", "v", "w", "x", "y", "z">>

\* strings.ToLower on one character
ToLowerChar(c) ==
    IF c \in Uppers
    THEN LowerSeq[CHOOSE k \in 1..26 : UpperSeq[k] = c]
    ELSE c

\* strings.ToLower
ToLower(s) == [k \in 1..Len(s) |-> ToLowerChar(s[k])]

\* strings.HasPrefix
HasPrefix(s, p) == Len(p) <= Len(s) /\ SubSeq(s, 1, Len(p)) = p

\* strings.HasSuffix
HasSuffix(s, p) == Len(p) <= Len(s) /\ SubSeq(s, Len(s) - Len(p) + 1, Len(s)) = p

\* strings.Contains
Contains(s, sub) ==
    \E k \in 1..(Len(s) - Len(sub) + 1) : SubSeq(s, k, k + Len(sub) - 1) = sub

\* positions of character c in s
Positions(s, c) == {k \in 1..Len(s) : s[k] = c}

\* largest / smallest element of a non-empty set of integers
MaxOf(S) == CHOOSE x \in S : \A y \in S : y <= x

MinOf(S) == CHOOSE x \in S : \A y \in S : x <= y

\* strings.Split(s, "/") for a one-character separator
RECURSIVE Split(_, _)
Split(s, c) ==
    IF Positions(s, c) = {}
    THEN <<s>>
    ELSE LET k == MinOf(Positions(s, c))
         IN  <<SubSeq(s, 1, k - 1)>> \o Split(SubSeq(s, k + 1, Len(s)), c)

\* strings.Join(parts, "/")
RECURSIVE Join(_, _)
Join(parts, sep) ==
    IF Len(parts) = 0 THEN <<>>
    ELSE IF Len(parts) = 1 THEN parts[1]
    ELSE parts[1] \o sep \o Join(Tail(parts), sep)

\* filepath.ToSlash: the identity where the separator is '/'
ToSlash(p) == p

\* filepath.Base: the last element of the path
Base(p) ==
    IF Len(p) = 0 THEN <<".">>
    ELSE LET parts == Split(p, "/") IN parts[Len(parts)]

\* filepath.Dir: everything before the last separator, "." when there is none
\* (the paths git prints are already clean, so Clean changes nothing)
Dir(p) ==
    IF Positions(p, "/") = {} THEN <<".">>
    ELSE LET k == MaxOf(Positions(p, "/"))
         IN  IF k = 1 THEN <<"/">> ELSE SubSeq(p, 1, k - 1)

\* filepath.Ext: the suffix beginning at the final dot of the last element
Ext(name) ==
    LET b == IF Positions(name, "/") = {} THEN 0 ELSE MaxOf(Positions(name, "/"))
        dots == {k \in Positions(name, ".") : k > b}
    IN  IF dots = {} THEN <<>> ELSE SubSeq(name, MaxOf(dots), Len(name))

\* strings.TrimSuffix
TrimSuffix(s, suf) ==
    IF HasSuffix(s, suf) THEN SubSeq(s, 1, Len(s) - Len(suf)) ELSE s

\* strings.Trim(s, "/"): strip every leading and trailing '/'
RECURSIVE TrimSlashes(_)
TrimSlashes(s) ==
    IF Len(s) = 0 THEN s
    ELSE IF s[1] = "/" THEN TrimSlashes(Tail(s))
    ELSE IF s[Len(s)] = "/" THEN TrimSlashes(SubSeq(s, 1, Len(s) - 1))
    ELSE s

\* the Go string made of the characters of s
RECURSIVE Str(_)
Str(s) == IF Len(s) = 0 THEN "" ELSE s[1] \o Str(Tail(s))

\* ------------------------------------------------------------------------
\* validator: the regular expressions
\* ------------------------------------------------------------------------

\* the character class [a-zA-Z0-9_.,-]
NameChars == Lowers \cup Uppers \cup Digits \cup {"_", ".", ",", "-"}

AllIn(s, S) == \A k \in 1..Len(s) : s[k] \in S

ProjectExts == {<<"f", "l", "p">>, <<"r", "p", "p">>, <<"s", "o", "n", "g">>, <<"p", "r", "o", "j", "e", "c", "t">>, <<"c", "p", "r">>, <<"p", "t", "x">>, <<"l", "o", "g", "i", "c", "x">>, <<"a", "l", "s">>}

ExportExts == {<<"m", "p", "3">>, <<"w", "a", "v">>, <<"f", "l", "a", "c">>}

ExportStatuses == {<<"p", "r", "o", "g", "r", "e", "s", "s">>, <<"u", "n", "m", "i", "x", "e", "d">>, <<"r", "o", "u", "g", "h">>, <<"m", "i", "x", "e", "d">>, <<"f", "i", "n", "a", "l", "m", "i", "x">>,
                   <<"r", "o", "u", "g", "h", "m", "a", "s", "t", "e", "r">>, <<"m", "a", "s", "t", "e", "r", "e", "d">>, <<"f", "i", "n", "a", "l", "m", "a", "s", "t", "e", "r">>}

\* projectExtRegex.MatchString: \.(flp|rpp|...)$
projectExtRegex(s) == \E e \in ProjectExts : HasSuffix(s, <<".">> \o e)

\* exportExtRegex.MatchString: \.(mp3|wav|flac)$
exportExtRegex(s) == \E e \in ExportExts : HasSuffix(s, <<".">> \o e)

\* exportStatusRegex.MatchString: ^(progress|...|finalmaster)$
exportStatusRegex(s) == s \in ExportStatuses

\* projectFolderRegex.MatchString:
\*   ^(N+)-(N+(?:,N+)*)-(N+)-([0-9]{2,3})bpm-prodby\.(N+)$   with N = NameChars
\* a, b, c are the positions of the three separating dashes, n the number of digits
projectFolderRegex(s) ==
    /\ AllIn(s, NameChars)
    /\ \E a \in Positions(s, "-") : \E b \in Positions(s, "-") : \E c \in Positions(s, "-") :
       \E n \in {2, 3} :
          /\ 1 < a /\ a + 1 < b /\ b + 1 < c
          /\ c + n + 11 < Len(s)
          /\ AllIn(SubSeq(s, c + 1, c + n), Digits)
          /\ SubSeq(s, c + n + 1, c + n + 11) = <<"b", "p", "m", "-", "p", "r", "o", "d", "b", "y", ".">>

\* regexp ^(.*)-([^-]+)$ : FindStringSubmatch, <<>> when there is no match
exportNameRegex(s) ==
    IF Positions(s, "-") = {} \/ MaxOf(Positions(s, "-")) = Len(s)
    THEN <<>>
    ELSE LET k == MaxOf(Positions(s, "-"))
         IN  <<s, SubSeq(s, 1, k - 1), SubSeq(s, k + 1, Len(s))>>

\* ------------------------------------------------------------------------
\* The characters of the paths and prefixes that occur in the model
\* ------------------------------------------------------------------------

Chars(t) ==
    CASE t = "README.md" ->
         <<"R", "E", "A", "D", "M", "E", ".", "m", "d">>
      [] t = "src/projects/song-artist-feat-x-120bpm-prodby.me/song.flp" ->
         <<"s", "r", "c", "/", "p", "r", "o", "j", "e", "c", "t", "s", "/", "s", "o", "n", "g", "-", "a", "r", "t", "i", "s", "t", "-", "f", "e", "a", "t", "-", "x", "-", "1", "2", "0", "b", "p", "m", "-", "p", "r", "o", "d", "b", "y", ".", "m", "e", "/", "s", "o", "n", "g", ".", "f", "l", "p">>
      [] t = "src/projects/song-artist-feat-x-120bpm-prodby.me/song-artist-feat-x-120bpm-prodby.me.flp" ->
         <<"s", "r", "c", "/", "p", "r", "o", "j", "e", "c", "t", "s", "/", "s", "o", "n", "g", "-", "a", "r", "t", "i", "s", "t", "-", "f", "e", "a", "t", "-", "x", "-", "1", "2", "0", "b", "p", "m", "-", "p", "r", "o", "d", "b", "y", ".", "m", "e", "/", "s", "o", "n", "g", "-", "a", "r", "t", "i", "s", "t", "-", "f", "e", "a", "t", "-", "x", "-", "1", "2", "0", "b", "p", "m", "-", "p", "r", "o", "d", "b", "y", ".", "m", "e", ".", "f", "l", "p">>
      [] t = "src/projects/song-artist-feat-x-120bpm-prodby.me/exports/song-artist-feat-x-120bpm-prodby.me-mixed.WAV" ->
         <<"s", "r", "c", "/", "p", "r", "o", "j", "e", "c", "t", "s", "/", "s", "o", "n", "g", "-", "a", "r", "t", "i", "s", "t", "-", "f", "e", "a", "t", "-", "x", "-", "1", "2", "0", "b", "p", "m", "-", "p", "r", "o", "d", "b", "y", ".", "m", "e", "/", "e", "x", "p", "o", "r", "t", "s", "/", "s", "o", "n", "g", "-", "a", "r", "t", "i", "s", "t", "-", "f", "e", "a", "t", "-", "x", "-", "1", "2", "0", "b", "p", "m", "-", "p", "r", "o", "d", "b", "y", ".", "m", "e", "-", "m", "i", "x", "e", "d", ".", "W", "A", "V">>
      [] t = "weird name.flp" ->
         <<"w", "e", "i", "r", "d", " ", "n", "a", "m", "e", ".", "f", "l", "p">>
      [] t = "src/my notes/todo.txt" ->
         <<"s", "r", "c", "/", "m", "y", " ", "n", "o", "t", "e", "s", "/", "t", "o", "d", "o", ".", "t", "x", "t">>
      [] t = ".gitignore" ->
         <<".", "g", "i", "t", "i", "g", "n", "o", "r", "e">>
      [] t = "" ->
         <<>>
      [] t = "/backups/" ->
         <<"/", "b", "a", "c", "k", "u", "p", "s", "/">>
      [] t = "//" ->
         <<"/", "/">>
      [] t = "backups" ->
         <<"b", "a", "c", "k", "u", "p", "s">>
      [] t = "/a/b/" ->
         <<"/", "a", "/", "b", "/">>
      [] t = ".git" ->
         <<".", "g", "i", "t">>
      [] t = ".git/refs" ->
         <<".", "g", "i", "t", "/", "r", "e", "f", "s">>
      [] t = ".git/refs/heads" ->
         <<".", "g", "i", "t", "/", "r", "e", "f", "s", "/", "h", "e", "a", "d", "s">>
      [] t = ".git/objects" ->
         <<".", "g", "i", "t", "/", "o", "b", "j", "e", "c", "t", "s">>
      [] t = ".git/hooks" ->
         <<".", "g", "i", "t", "/", "h", "o", "o", "k", "s">>
      [] t = ".git/refs/heads/feature" ->
         <<".", "g", "i", "t", "/", "r", "e", "f", "s", "/", "h", "e", "a", "d", "s", "/", "f", "e", "a", "t", "u", "r", "e">>

\* ------------------------------------------------------------------------
\* validator.Validate
\* ------------------------------------------------------------------------

allowedRootFiles == {<<"R", "E", "A", "D", "M", "E", ".", "m", "d">>, <<".", "g", "i", "t", "i", "g", "n", "o", "r", "e">>, <<"c", "o", "n", "f", "i", "g", ".", "t", "o", "m", "l">>}

requiredRootFiles == <<"README.md", ".gitignore">>

\* the violation texts, fmt.Sprintf applied to each format of addError
ErrSpaces(file) == "Path contains spaces: '" \o file \o "'"

ErrRootFile(file) == "Unexpected file in root directory: '" \o file \o "'"

ErrSrcCase(part, file) ==
    "'src' directory component must be lowercase: '" \o part \o "' in path '" \o file \o "'"

ErrFolderName(folder, file) ==
    "Invalid project folder name format: '" \o folder \o "' in path '" \o file \o "'"

ErrBaseMismatch(folder, baseName, file) ==
    "Project filename base must match folder name. Expected '" \o folder
    \o ".*', found '" \o baseName \o "' in path '" \o file \o "'"

ErrProjectExt(baseName, file) ==
    "Invalid file extension for project file '" \o baseName
    \o "'. Allowed: .flp, .rpp, .song, .project, .cpr, .ptx, .logicx, .als. Path: '"
    \o file \o "'"

ErrExportsCase(part, file) ==
    "'exports' directory component must be lowercase: '" \o part \o "' in path '" \o file \o "'"

ErrExportFormat(baseName, file) ==
    "Export filename '" \o baseName
    \o "' does not match expected format '[project_base]-[status]'. Path: '" \o file \o "'"

ErrExportBase(folder, baseName, file) ==
    "Export filename base must match project folder name. Expected '" \o folder
    \o "-[status].*', found '" \o baseName \o "' in path '" \o file \o "'"

ErrExportStatus(status, baseName, file) ==
    "Invalid status identifier '" \o status \o "' in export filename '" \o baseName
    \o "'. Allowed: progress, unmixed, rough, mixed, finalmix, roughmaster, mastered, finalmaster. Path: '"
    \o file \o "'"

ErrExportExt(baseName, file) ==
    "Invalid file extension for export file '" \o baseName
    \o "'. Allowed: .mp3, .wav, .flac. Path: '" \o file \o "'"

ErrInsideProject(inside, file, folder) ==
    "Unexpected file or directory inside project folder: '" \o inside \o "' in path '" \o file
    \o "'. Only project file and 'exports/' dir allowed directly under '" \o folder \o "/'"

ErrDirectlyInProjects(file) ==
    "Files are not allowed directly inside 'src/projects/'. Place them in a named project folder: '"
    \o file \o "'"

ErrTopLevel(file) ==
    "Unexpected top-level file or directory: '" \o file
    \o "'. Only 'src/', 'README.md', 'config.toml', '.gitignore' allowed."

ErrRequired(reqFile) ==
    "Required file '" \o reqFile \o "' not found in repository index."

\* General Rule 1: no spaces
\* no rule about spaces
NoSpaceRule(file) == <<>>

\* General Rule 1: no spaces
SpaceErrors(file) ==
    IF Contains(Chars(file), <<" ">>) THEN <<ErrSpaces(file)>> ELSE <<>>

\* a project file checked for its extension only
ProjectFileExtOnly(parts, projectFolder, file) ==
    LET baseName == parts[Len(parts)]
    IN  IF ~projectExtRegex(ToLower(baseName))
        THEN <<ErrProjectExt(Str(baseName), file)>> ELSE <<>>

\* a file directly in the project folder
ProjectFileErrors(parts, projectFolder, file) ==
    LET baseName      == parts[Len(parts)]
        ext           == Ext(baseName)
        baseNameNoExt == TrimSuffix(baseName, ext)
    IN  (IF baseNameNoExt # projectFolder
         THEN <<ErrBaseMismatch(Str(projectFolder), Str(baseName), file)>> ELSE <<>>)
        \o
        (IF ~projectExtRegex(ToLower(baseName))
         THEN <<ErrProjectExt(Str(baseName), file)>> ELSE <<>>)

\* a path below exports/ (parts are 1-based: Go's parts[3] is parts[4] here)
ExportErrors(parts, projectFolder, file) ==
    (IF parts[4] # <<"e", "x", "p", "o", "r", "t", "s">>
     THEN <<ErrExportsCase(Str(parts[4]), file)>> ELSE <<>>)
    \o
    (IF Len(parts) > 4
     THEN LET exportBaseName      == parts[Len(parts)]
              exportExt           == Ext(exportBaseName)
              exportBaseNameNoExt == TrimSuffix(exportBaseName, exportExt)
              match               == exportNameRegex(exportBaseNameNoExt)
          IN  (IF Len(match) # 3
               THEN <<ErrExportFormat(Str(exportBaseName), file)>>
               ELSE (IF match[2] # projectFolder
                     THEN <<ErrExportBase(Str(projectFolder), Str(exportBaseName), file)>> ELSE <<>>)
                    \o
                    (IF ~exportStatusRegex(match[3])
                     THEN <<ErrExportStatus(Str(match[3]), Str(exportBaseName), file)>> ELSE <<>>))
              \o
              (IF ~exportExtRegex(ToLower(exportBaseName))
               THEN <<ErrExportExt(Str(exportBaseName), file)>> ELSE <<>>)
     ELSE <<>>)

\* the src/projects rules
ProjectsErrors(parts, file) ==
    IF Len(parts) > 2
    THEN LET projectFolder == parts[3]
         IN  IF ~projectFolderRegex(projectFolder)
             THEN <<ErrFolderName(Str(projectFolder), file)>>
             ELSE LET pathInsideProject == Join(SubSeq(parts, 4, Len(parts)), <<"/">>)
                  IN  IF pathInsideProject = <<>> THEN <<>>
                      ELSE IF ~Contains(pathInsideProject, <<"/">>)
                           THEN ProjectFileErrors(parts, projectFolder, file)
                      ELSE IF HasPrefix(pathInsideProject, <<"e", "x", "p", "o", "r", "t", "s", "/">>)
                           THEN ExportErrors(parts, projectFolder, file)
                      ELSE <<ErrInsideProject(Str(pathInsideProject), file, Str(projectFolder))>>
    ELSE <<ErrDirectlyInProjects(file)>>

\* the structure and naming rules of one changed file
StructureErrors(file) ==
    LET filePath == ToSlash(Chars(file))
        dir      == ToSlash(Dir(filePath))
        base     == Base(filePath)
    IN  IF dir = <<".">>
        THEN IF base \notin allowedRootFiles THEN <<ErrRootFile(file)>> ELSE <<>>
        ELSE IF HasPrefix(filePath, <<"s", "r", "c", "/">>)
        THEN LET parts == Split(filePath, "/")
             IN  (IF parts[1] # <<"s", "r", "c">> THEN <<ErrSrcCase(Str(parts[1]), file)>> ELSE <<>>)
                 \o
                 (IF Len(parts) > 1 /\ parts[2] = <<"p", "r", "o", "j", "e", "c", "t", "s">>
                  THEN ProjectsErrors(parts, file)
                  ELSE <<>>)
        ELSE <<ErrTopLevel(file)>>

\* the body of the loop over changedFiles
FileErrors(file) == SpaceErrors(file) \o StructureErrors(file)

RECURSIVE ChangedFilesErrors(_)
ChangedFilesErrors(changedFiles) ==
    IF Len(changedFiles) = 0 THEN <<>>
    ELSE FileErrors(Head(changedFiles)) \o ChangedFilesErrors(Tail(changedFiles))

\* the required-files loop; tracked is the set of paths for which
\* gitutil.CheckFileExists answers true
RECURSIVE RequiredErrors(_, _)
RequiredErrors(reqFiles, tracked) ==
    IF Len(reqFiles) = 0 THEN <<>>
    ELSE (IF Head(reqFiles) \notin tracked THEN <<ErrRequired(Head(reqFiles))>> ELSE <<>>)
         \o RequiredErrors(Tail(reqFiles), tracked)

\* Validate(repoPath, changedFiles): isValid is false exactly when addError ran
Validate(tracked, changedFiles) ==
    LET errors == ChangedFilesErrors(changedFiles) \o RequiredErrors(requiredRootFiles, tracked)
    IN  [isValid |-> Len(errors) = 0, errors |-> errors]

\* ------------------------------------------------------------------------
\* Bounds and inputs of the model
\* ------------------------------------------------------------------------

\* debounce_seconds: the default of config.LoadConfig
DebounceSecs == 2

\* the clock runs from 0 to MaxTime seconds
MaxTime == 4

\* at most MaxInv timer callbacks (handleCommitCheck goroutines) exist at a time
MaxInv == 2

\* qualifying events in one sequence
MaxBurst == 2

\* chunks of output of one git archive process
MaxChunks == 3

\* the commit ids of the repository
Commits == {"abc123", "def456", "c0ffee"}

\* "no hash": the empty string of the source
NoHash == ""

\* debounceTimer == nil
NoTimer == -1

ReadmeFile == "README.md"

SongFile == "src/projects/song-artist-feat-x-120bpm-prodby.me/song.flp"

ProjectFile == "src/projects/song-artist-feat-x-120bpm-prodby.me/song-artist-feat-x-120bpm-prodby.me.flp"

ExportFile == "src/projects/song-artist-feat-x-120bpm-prodby.me/exports/song-artist-feat-x-120bpm-prodby.me-mixed.WAV"

WeirdFile == "weird name.flp"

NotesFile == "src/my notes/todo.txt"

\* every path and prefix of the model
Texts == {ReadmeFile, ".gitignore", SongFile, ProjectFile, ExportFile, WeirdFile, NotesFile,
          "", "/backups/", "//", "backups", "/a/b/",
          ".git", ".git/refs", ".git/refs/heads", ".git/objects", ".git/hooks",
          ".git/refs/heads/feature"}

\* the change sets the third commit may carry
WildChangeSets == { <<ReadmeFile, ProjectFile>>, <<ExportFile>>, <<NotesFile>>, <<>> }

\* the prefixes (s3_prefix) and buckets (s3_bucket) a configuration may hold
Prefixes == { "", "//", "backups", "/backups/", "/a/b/" }

Buckets == { "", "bkt" }

\* the answers gitutil.CheckFileExists may give for the required files
TrackedSets == SUBSET {requiredRootFiles[k] : k \in 1..Len(requiredRootFiles)}

\* ------------------------------------------------------------------------
\* State
\* ------------------------------------------------------------------------

VARIABLES
    now,            \* the clock, in seconds
    timers,         \* deadlines of the time.AfterFunc timers still running
    debounceTimer,  \* deadline of the timer the variable refers to, or NoTimer
    head,           \* the commit id HEAD resolves to (NoHash: no commit yet)
    commitFiles,    \* the change set of each commit of the repository
    bucket,         \* appConfig.Backup.Bucket
    prefix,         \* appConfig.Backup.Prefix
    lastKnownHash,  \* monitor.lastKnownHash
    processingMu,   \* "Idle" or "Running": the try-lock of handleCommitCheck
    inv,            \* per handleCommitCheck goroutine: position, locals, what it did
    store,          \* keys of the objects in the object store
    lastEvent,      \* time of the last qualifying event, -1 before the first
    burstLen,       \* events of the current sequence: each less than DebounceSecs after the one before
    firedFor,       \* callbacks spawned since the current sequence of events began
    window,         \* the commits landed since the last timer expiry
    failedHead,     \* H once RunBackup has failed for H, while HEAD stays H; else NoHash
    backupRun,      \* the archive pipeline of RunBackup, in detail
    watcher,        \* Start and its fsnotify watcher: position, watches, last event
    gitShow         \* a call of GetChangedFilesInCommit: the output of git show and the scan of it

vars == <<now, timers, debounceTimer, head, commitFiles, bucket, prefix, lastKnownHash,
          processingMu, inv, store, lastEvent, burstLen, firedFor, window,
          failedHead, backupRun, watcher, gitShow>>

\* no call of GetChangedFilesInCommit is followed line by line
NoOutput == [pc |-> "idle"]

envVars == <<head, commitFiles, bucket, prefix>>

timeVars == <<now, timers, debounceTimer, lastEvent, burstLen, firedFor>>

InvIds == 1..MaxInv

\* no commit landed since the last timer expiry
EmptyWindow == [first |-> NoHash, many |-> FALSE, quiet |-> TRUE]

\* a commit landed while a callback was in flight
DirtyWindow == [first |-> NoHash, many |-> FALSE, quiet |-> FALSE]

\* the callback was not spawned by a burst of two or more commits landed in quiet
NoBurst == [first |-> NoHash, last |-> NoHash]

\* no pipeline is followed in detail
NoRun == [main |-> "idle"]

\* Start is in its event loop; the watcher is not followed in detail
Watching == [pc |-> "loop"]

\* a goroutine slot that is free
Unborn ==
    [pc |-> "unborn", cur |-> NoHash, orig |-> NoHash, files |-> <<>>, verrs |-> <<>>,
     uploadErr |-> FALSE, key |-> "", putKeys |-> <<>>, calls |-> <<>>,
     outcome |-> "none", burst |-> NoBurst]

InFlight(i) == inv[i].pc \notin {"unborn", "done"}

\* the critical section: everything after the token is acquired
InCritical(i) == inv[i].pc \in {"query", "fetch", "validate", "backup", "put", "wait"}

\* a RunBackup call that has started its archive job
InBackup(i) == inv[i].pc \in {"put", "wait"}

\* ------------------------------------------------------------------------
\* Collaborators
\* ------------------------------------------------------------------------

\* a query that answers from a copy of the ref made when abc123 was HEAD
GetCurrentCommitHashStale(h) ==
    { [err |-> FALSE, hash |-> "abc123"], [err |-> TRUE, hash |-> NoHash] }

\* gitutil.GetCurrentCommitHash: the hash HEAD resolves to, the trimmed content
\* of a ref file caught empty, or an error
GetCurrentCommitHash(h) ==
    { [err |-> FALSE, hash |-> h], [err |-> FALSE, hash |-> NoHash], [err |-> TRUE, hash |-> NoHash] }

\* gitutil.GetChangedFilesInCommit: the change set of the commit, or an error
GetChangedFilesInCommit(files, h) ==
    { [err |-> FALSE, files |-> files[h]], [err |-> TRUE, files |-> <<>>] }

\* the key with the prefix as configured, slashes and all
S3KeyUntrimmed(pfx, commitHash) ==
    LET backupFilename == "commit-" \o commitHash \o ".tar.gz"
    IN  IF pfx # "" THEN pfx \o "/" \o backupFilename ELSE backupFilename

\* backupFilename and s3Key of RunBackup
S3Key(pfx, commitHash) ==
    LET backupFilename == "commit-" \o commitHash \o ".tar.gz"
        cleanPrefix    == Str(TrimSlashes(Chars(pfx)))
    IN  IF pfx # "" /\ cleanPrefix # ""
        THEN cleanPrefix \o "/" \o backupFilename
        ELSE backupFilename

\* ------------------------------------------------------------------------
\* Initial state: monitor.Start up to the event loop
\* ------------------------------------------------------------------------

\* the change sets of the commits: abc123 and def456 as in the end-to-end
\* scenarios, c0ffee as given
CommitFilesWith(w) ==
    [h \in Commits |->
        IF h = "abc123" THEN <<ReadmeFile, SongFile>>
        ELSE IF h = "def456" THEN <<WeirdFile>>
        ELSE w]

\* Start: the hash is read once; on an error lastKnownHash starts empty
Init ==
    /\ now = 0
    /\ timers = {}
    /\ debounceTimer = NoTimer
    /\ head \in {NoHash, "abc123"}
    /\ commitFiles = CommitFilesWith(<<ReadmeFile, ProjectFile>>)
    /\ bucket = "bkt"
    /\ prefix = ""
    /\ \E r \in GetCurrentCommitHash(head) :
          lastKnownHash = IF r.err THEN NoHash ELSE r.hash
    /\ processingMu = "Idle"
    /\ inv = [i \in InvIds |-> Unborn]
    /\ store = {}
    /\ lastEvent = -1
    /\ burstLen = 0
    /\ firedFor = 0
    /\ window = EmptyWindow
    /\ failedHead = NoHash
    /\ gitShow = NoOutput
    /\ backupRun = NoRun
    /\ watcher = Watching

\* ------------------------------------------------------------------------
\* The repository and the event loop of monitor.Start
\* ------------------------------------------------------------------------

\* a commit lands (or HEAD is moved): the environment
Commit(h) ==
    /\ h # head
    /\ head' = h
    /\ window' = IF ~window.quiet \/ (\E i \in InvIds : InFlight(i))
                 THEN DirtyWindow
                 ELSE [first |-> IF window.first = NoHash THEN h ELSE window.first,
                       many  |-> window.first # NoHash,
                       quiet |-> TRUE]
    /\ failedHead' = NoHash
    /\ UNCHANGED <<commitFiles, bucket, prefix, lastKnownHash, processingMu, inv, store>>
    /\ UNCHANGED timeVars
    /\ UNCHANGED <<backupRun, watcher, gitShow>>

\* the event arriving now continues the current sequence of events
InSequence == lastEvent >= 0 /\ now < lastEvent + DebounceSecs

\* a Stop that cancels only a timer that is already due
StopExpiredOnly(ts, t) == IF t <= now THEN ts \ {t} ELSE ts

\* a Stop that leaves the timer running
StopNothing(ts, t) == ts

\* debounceTimer.Stop(): a timer that has not expired yet never will
StopTimer(ts, t) == ts \ {t}

\* the debounce: stop the timer the variable refers to and start a new one
Debounce ==
    /\ now + DebounceSecs <= MaxTime
    /\ InSequence => burstLen < MaxBurst
    /\ timers' = (IF debounceTimer # NoTimer THEN StopTimer(timers, debounceTimer) ELSE timers)
                 \cup {now + DebounceSecs}
    /\ debounceTimer' = now + DebounceSecs
    /\ lastEvent' = now
    /\ burstLen' = IF InSequence THEN burstLen + 1 ELSE 1
    /\ firedFor' = IF InSequence THEN firedFor ELSE 0
    /\ UNCHANGED <<now, lastKnownHash, processingMu, inv, store, window>>
    /\ UNCHANGED envVars
    /\ UNCHANGED <<failedHead, backupRun, gitShow>>

\* an event with Write, Create or Rename
QualifyingEvent ==
    /\ Debounce
    /\ UNCHANGED watcher

\* an event of another kind (Chmod, Remove): ignored
OtherEvent ==
    /\ UNCHANGED vars

\* a second passes, and a RunBackup in progress is cancelled by a deadline
TickWithDeadline ==
    /\ now < MaxTime
    /\ \A d \in timers : now < d
    /\ now' = now + 1
    /\ inv' = [i \in InvIds |->
                 IF InBackup(i)
                 THEN [Unborn EXCEPT !.pc = "done", !.outcome = "backup_failed",
                                     !.cur = inv[i].cur, !.calls = inv[i].calls]
                 ELSE inv[i]]
    /\ processingMu' = IF \E i \in InvIds : InBackup(i) THEN "Idle" ELSE processingMu
    /\ UNCHANGED <<timers, debounceTimer, lastEvent, burstLen, firedFor, lastKnownHash,
                   store, window>>
    /\ UNCHANGED envVars
    /\ UNCHANGED <<failedHead, backupRun, watcher, gitShow>>

\* a second passes; a timer that is due expires first
Tick ==
    /\ now < MaxTime
    /\ \A d \in timers : now < d
    /\ now' = now + 1
    /\ UNCHANGED <<timers, debounceTimer, lastEvent, burstLen, firedFor, lastKnownHash,
                   processingMu, inv, store, window>>
    /\ UNCHANGED envVars
    /\ UNCHANGED <<failedHead, backupRun, watcher, gitShow>>

\* a timer expires: time.AfterFunc runs handleCommitCheck in its own goroutine
TimerFire(d) ==
    /\ d \in timers
    /\ d <= now
    /\ \E i \in InvIds : inv[i].pc = "unborn"
    /\ timers' = timers \ {d}
    /\ LET i == MinOf({j \in InvIds : inv[j].pc = "unborn"})
       IN  inv' = [inv EXCEPT ![i] =
                     [Unborn EXCEPT !.pc = "start",
                                    !.burst = IF /\ window.quiet
                                                 /\ window.many
                                                 /\ \A j \in InvIds : ~InFlight(j)
                                              THEN [first |-> window.first, last |-> head]
                                              ELSE NoBurst]]
    /\ firedFor' = firedFor + 1
    /\ window' = EmptyWindow
    /\ UNCHANGED <<now, debounceTimer, lastEvent, burstLen, lastKnownHash, processingMu, store>>
    /\ UNCHANGED envVars
    /\ UNCHANGED <<failedHead, backupRun, watcher, gitShow>>

\* ------------------------------------------------------------------------
\* handleCommitCheck
\* ------------------------------------------------------------------------

\* what a finished callback leaves behind: its outcome, the commit it looked at,
\* the violations it logged and the puts it issued
Finished(rec, outcome) ==
    [Unborn EXCEPT !.pc = "done", !.outcome = outcome, !.cur = rec.cur,
                   !.verrs = rec.verrs, !.putKeys = rec.putKeys, !.calls = rec.calls]

\* a return that forgets the deferred Unlock
ReturnLocked(i, rec, outcome, lkh) ==
    /\ lastKnownHash' = lkh
    /\ failedHead' = IF outcome = "backup_failed" /\ head = rec.cur THEN rec.cur ELSE failedHead
    /\ inv' = [inv EXCEPT ![i] = Finished(rec, outcome)]
    /\ UNCHANGED <<processingMu, store, window>>
    /\ UNCHANGED envVars
    /\ UNCHANGED <<backupRun, watcher, gitShow>>
    /\ UNCHANGED timeVars

\* return from handleCommitCheck with the token held, lastKnownHash being lkh:
\* the deferred Unlock runs
Return(i, rec, outcome, lkh) ==
    /\ lastKnownHash' = lkh
    /\ failedHead' = IF outcome = "backup_failed" /\ head = rec.cur THEN rec.cur ELSE failedHead
    /\ inv' = [inv EXCEPT ![i] = Finished(rec, outcome)]
    /\ processingMu' = "Idle"
    /\ UNCHANGED <<store, window>>
    /\ UNCHANGED envVars
    /\ UNCHANGED <<backupRun, watcher, gitShow>>
    /\ UNCHANGED timeVars

\* move on inside the cycle, lastKnownHash being lkh
Continue(i, rec, lkh) ==
    /\ lastKnownHash' = lkh
    /\ inv' = [inv EXCEPT ![i] = rec]
    /\ UNCHANGED <<processingMu, store, window>>
    /\ UNCHANGED envVars
    /\ UNCHANGED <<failedHead, backupRun, watcher, gitShow>>
    /\ UNCHANGED timeVars

\* the goroutine of a finished callback ends
Exit(i) ==
    /\ inv[i].pc = "done"
    /\ inv' = [inv EXCEPT ![i] = Unborn]
    /\ UNCHANGED <<lastKnownHash, processingMu, store, window>>
    /\ UNCHANGED envVars
    /\ UNCHANGED <<failedHead, backupRun, watcher, gitShow>>
    /\ UNCHANGED timeVars

\* a try-lock that always answers true
TryLockAlways(mu) == TRUE

\* processingMu.TryLock() answers true only when the token is Idle
TryLockSucceeds(mu) == mu = "Idle"

\* a skipped callback that has stored the head before trying the lock
SkipCheckAdvances(i) ==
    /\ inv' = [inv EXCEPT ![i] = Finished(inv[i], "dropped")]
    /\ lastKnownHash' = head
    /\ UNCHANGED <<processingMu, store, window>>
    /\ UNCHANGED envVars
    /\ UNCHANGED <<failedHead, backupRun, watcher, gitShow>>
    /\ UNCHANGED timeVars

\* a skipped callback that arms the timer again so as to be retried
SkipCheckRetry(i) ==
    /\ inv' = [inv EXCEPT ![i] = Finished(inv[i], "dropped")]
    /\ timers' = timers \cup {now + DebounceSecs}
    /\ debounceTimer' = now + DebounceSecs
    /\ UNCHANGED <<now, lastEvent, burstLen, firedFor>>
    /\ UNCHANGED <<lastKnownHash, processingMu, store, window>>
    /\ UNCHANGED envVars
    /\ UNCHANGED <<failedHead, backupRun, watcher, gitShow>>

\* a dropped invocation that asks for another one at once: it arms a timer
\* that is due now
SkipCheckRearms(i) ==
    /\ inv' = [inv EXCEPT ![i] = Finished(inv[i], "dropped")]
    /\ timers' = timers \cup {now}
    /\ debounceTimer' = now
    /\ UNCHANGED <<now, lastEvent, burstLen, firedFor>>
    /\ UNCHANGED <<lastKnownHash, processingMu, store, window>>
    /\ UNCHANGED envVars
    /\ UNCHANGED <<failedHead, backupRun, watcher, gitShow>>

\* "Commit check already in progress, skipping.": the callback returns at once
SkipCheck(i) ==
    /\ inv' = [inv EXCEPT ![i] = Finished(inv[i], "dropped")]
    /\ UNCHANGED <<lastKnownHash, processingMu, store, window>>
    /\ UNCHANGED envVars
    /\ UNCHANGED <<failedHead, backupRun, watcher, gitShow>>
    /\ UNCHANGED timeVars

\* the first statement of handleCommitCheck
TryLock(i) ==
    /\ inv[i].pc = "start"
    /\ IF TryLockSucceeds(processingMu)
       THEN /\ processingMu' = "Running"
            /\ inv' = [inv EXCEPT ![i] = [@ EXCEPT !.pc = "query"]]
            /\ UNCHANGED <<lastKnownHash, store, window>>
            /\ UNCHANGED envVars
            /\ UNCHANGED <<failedHead, backupRun, watcher, gitShow>>
            /\ UNCHANGED timeVars
       ELSE SkipCheck(i)

\* a failed query that stores the empty hash it got
QueryFailedStores(i, rec) == Return(i, rec, "query_error", rec.cur)

\* "Could not get current commit hash during check": return, nothing else
QueryFailed(i, rec) == Return(i, rec, "query_error", lastKnownHash)

\* a comparison that takes every hash other than lastKnownHash for a new commit
AnyDifferenceIsNew(currentHash, lkh) == currentHash # lkh

\* a comparison that takes every non-empty hash for a new commit
AnyHashIsNew(currentHash, lkh) == currentHash # NoHash

\* currentHash != "" && currentHash != lastKnownHash
NewCommitDetected(currentHash, lkh) == currentHash # NoHash /\ currentHash # lkh

\* a query that leaves lastKnownHash alone when it finds a new commit
QueryLateAdvance(i) ==
    /\ inv[i].pc = "query"
    /\ \E r \in GetCurrentCommitHash(head) :
         LET rec == [inv[i] EXCEPT !.calls = Append(@, "query"), !.cur = r.hash]
         IN  IF r.err
             THEN QueryFailed(i, rec)
             ELSE IF NewCommitDetected(r.hash, lastKnownHash)
             THEN Continue(i, [rec EXCEPT !.pc = "fetch", !.orig = lastKnownHash], lastKnownHash)
             ELSE IF r.hash = lastKnownHash
             THEN Return(i, rec, "no_new_commit", lastKnownHash)
             ELSE Return(i, rec, "empty_head", lastKnownHash)

\* GetCurrentCommitHash, the comparison with lastKnownHash and the optimistic advance
Query(i) ==
    /\ inv[i].pc = "query"
    /\ \E r \in GetCurrentCommitHash(head) :
         LET rec == [inv[i] EXCEPT !.calls = Append(@, "query"), !.cur = r.hash]
         IN  IF r.err
             THEN QueryFailed(i, rec)
             ELSE IF NewCommitDetected(r.hash, lastKnownHash)
             THEN Continue(i, [rec EXCEPT !.pc = "fetch", !.orig = lastKnownHash], r.hash)
             ELSE IF r.hash = lastKnownHash
             THEN Return(i, rec, "no_new_commit", lastKnownHash)
             ELSE Return(i, rec, "empty_head", lastKnownHash)

\* no revert: the advanced value stays
KeepAdvanced(originalLastHash, currentHash) == currentHash

\* lastKnownHash = originalLastHash: the value the state is reverted to
RevertTo(originalLastHash, currentHash) == originalLastHash

\* a fetch whose failure is ignored: the cycle goes on with no files
FetchKeepsGoing(i) ==
    /\ inv[i].pc = "fetch"
    /\ \E r \in GetChangedFilesInCommit(commitFiles, inv[i].cur) :
         LET rec == [inv[i] EXCEPT !.calls = Append(@, "fetch"), !.files = r.files]
         IN  Continue(i, [rec EXCEPT !.pc = "validate"], lastKnownHash)

\* GetChangedFilesInCommit for the new commit; the state is reverted on failure
Fetch(i) ==
    /\ inv[i].pc = "fetch"
    /\ \E r \in GetChangedFilesInCommit(commitFiles, inv[i].cur) :
         LET rec == [inv[i] EXCEPT !.calls = Append(@, "fetch"), !.files = r.files]
         IN  IF r.err
             THEN Return(i, rec, "fetch_error", RevertTo(inv[i].orig, inv[i].cur))
             ELSE Continue(i, [rec EXCEPT !.pc = "validate"], lastKnownHash)

\* a branch that ignores the verdict
AlwaysPassed(res) == TRUE

\* if isValid { ... RunBackup ... } else { ... SKIPPED ... }
PassedValidation(res) == res.isValid

\* validator.Validate and the branch on isValid
ValidateStep(i) ==
    /\ inv[i].pc = "validate"
    /\ \E tr \in TrackedSets :
         LET res == Validate(tr, inv[i].files)
             rec == [inv[i] EXCEPT !.calls = Append(@, "validate"), !.verrs = res.errors]
         IN  IF PassedValidation(res)
             THEN Continue(i, [rec EXCEPT !.pc = "backup"], lastKnownHash)
             ELSE Return(i, rec, "rejected", lastKnownHash)

\* a RunBackup without the check of the bucket name
BackupStartNoCheck(i) ==
    /\ inv[i].pc = "backup"
    /\ \E sdkOk \in BOOLEAN : \E startOk \in BOOLEAN :
         LET rec == [inv[i] EXCEPT !.calls = Append(@, "backup")]
         IN  IF ~sdkOk \/ ~startOk
             THEN Return(i, rec, "backup_failed", lastKnownHash)
             ELSE Continue(i, [rec EXCEPT !.pc = "put", !.key = S3Key(prefix, inv[i].cur)],
                           lastKnownHash)

\* RunBackup up to the start of the upload: the bucket check, the SDK
\* configuration, the key, the start of git archive and of the gzip goroutine
BackupStart(i) ==
    /\ inv[i].pc = "backup"
    /\ \E sdkOk \in BOOLEAN : \E startOk \in BOOLEAN :
         LET rec == [inv[i] EXCEPT !.calls = Append(@, "backup")]
         IN  IF bucket = "" \/ ~sdkOk \/ ~startOk
             THEN Return(i, rec, "backup_failed", lastKnownHash)
             ELSE Continue(i, [rec EXCEPT !.pc = "put", !.key = S3Key(prefix, inv[i].cur)],
                           lastKnownHash)

\* s3Client.PutObject reading the gzip pipe: the object exists once it succeeds
PutObject(i) ==
    /\ inv[i].pc = "put"
    /\ \E ok \in BOOLEAN :
         /\ inv' = [inv EXCEPT ![i] =
                      [@ EXCEPT !.pc = "wait", !.calls = Append(@, "put"),
                                !.putKeys = Append(@, inv[i].key), !.uploadErr = ~ok]]
         /\ store' = IF ok THEN store \cup {inv[i].key} ELSE store
    /\ UNCHANGED <<lastKnownHash, processingMu, window>>
    /\ UNCHANGED envVars
    /\ UNCHANGED <<failedHead, backupRun, watcher, gitShow>>
    /\ UNCHANGED timeVars

\* the error RunBackup returns: the upload error first, then the archive error
RunBackupFails(uploadErr, archiveErr) == uploadErr \/ archiveErr

\* an end of cycle that reverts lastKnownHash when RunBackup failed
WaitArchiveRollsBack(i) ==
    /\ inv[i].pc = "wait"
    /\ \E archiveErr \in BOOLEAN :
         LET rec == [inv[i] EXCEPT !.calls = Append(@, "wait")]
         IN  IF RunBackupFails(inv[i].uploadErr, archiveErr)
             THEN Return(i, rec, "backup_failed", inv[i].orig)
             ELSE Return(i, rec, "backup_ok", lastKnownHash)

\* cmdArchive.Wait, the result of RunBackup and the end of the cycle
WaitArchive(i) ==
    /\ inv[i].pc = "wait"
    /\ \E archiveErr \in BOOLEAN :
         LET rec == [inv[i] EXCEPT !.calls = Append(@, "wait")]
         IN  IF RunBackupFails(inv[i].uploadErr, archiveErr)
             THEN Return(i, rec, "backup_failed", lastKnownHash)
             ELSE Return(i, rec, "backup_ok", lastKnownHash)

Next ==
    \/ \E h \in Commits : Commit(h)
    \/ QualifyingEvent
    \/ OtherEvent
    \/ Tick
    \/ \E d \in timers : TimerFire(d)
    \/ \E i \in InvIds : TryLock(i)
    \/ \E i \in InvIds : Query(i)
    \/ \E i \in InvIds : Fetch(i)
    \/ \E i \in InvIds : ValidateStep(i)
    \/ \E i \in InvIds : BackupStart(i)
    \/ \E i \in InvIds : PutObject(i)
    \/ \E i \in InvIds : WaitArchive(i)
    \/ \E i \in InvIds : Exit(i)

Spec == Init /\ [][Next]_vars

\* ------------------------------------------------------------------------
\* One cycle, over every configuration and every commit content
\* ------------------------------------------------------------------------

\* the first timer has just expired, DebounceSecs after the only event, and its
\* callback is about to run; the repository and the configuration are any
InitCycle ==
    /\ now = DebounceSecs
    /\ timers = {}
    /\ debounceTimer = DebounceSecs
    /\ head \in Commits \cup {NoHash}
    /\ \E w \in WildChangeSets : commitFiles = CommitFilesWith(w)
    /\ bucket \in Buckets
    /\ prefix \in Prefixes
    /\ lastKnownHash \in Commits \cup {NoHash}
    /\ processingMu = "Idle"
    /\ inv = [i \in InvIds |-> IF i = 1 THEN [Unborn EXCEPT !.pc = "start"] ELSE Unborn]
    /\ store = {}
    /\ lastEvent = 0
    /\ burstLen = 1
    /\ firedFor = 1
    /\ window = EmptyWindow
    /\ failedHead = NoHash
    /\ gitShow = NoOutput
    /\ backupRun = NoRun
    /\ watcher = Watching

NextCycle ==
    \/ \E i \in InvIds : TryLock(i)
    \/ \E i \in InvIds : Query(i)
    \/ \E i \in InvIds : Fetch(i)
    \/ \E i \in InvIds : ValidateStep(i)
    \/ \E i \in InvIds : BackupStart(i)
    \/ \E i \in InvIds : PutObject(i)
    \/ \E i \in InvIds : WaitArchive(i)
    \/ \E i \in InvIds : Exit(i)

SpecCycle == InitCycle /\ [][NextCycle]_vars

\* ------------------------------------------------------------------------
\* The archive pipeline of RunBackup, step by step:
\*   git archive (Source) -> stdout pipe -> gzip goroutine (Transform)
\*                        -> io.Pipe -> PutObject (Sink)
\* ------------------------------------------------------------------------

\* chunks the stdout pipe of the child process buffers
StdoutCap == 1

\* every variable but store and backupRun
pipeFrame ==
    <<now, timers, debounceTimer, head, commitFiles, bucket, prefix, lastKnownHash,
      processingMu, inv, lastEvent, burstLen, firedFor, window, failedHead, watcher,
      gitShow>>

\* the pipeline right after cmdArchive.Start and GzipPipe, PutObject being
\* called: the child has n chunks to write
StartedRun(n) ==
    [main         |-> "put",      \* put, wait, result, returned: where RunBackup is
     src          |-> "running",  \* the git archive process: running or exited
     srcErr       |-> FALSE,      \* it exited with a non-zero status
     total        |-> n,          \* chunks of output it has in all
     srcLeft      |-> n,          \* chunks it has yet to write
     stdoutBuf    |-> 0,          \* chunks in its stdout pipe
     stdoutSeq    |-> <<>>,       \* which chunks, oldest first
     hold         |-> 0,          \* the chunk io.Copy has read and is writing (0: none)
     stdoutClosed |-> FALSE,      \* Wait has closed the read end of stdoutPipe
     gz           |-> "read",     \* the goroutine: read, write, close, flush, closew, finished
     err          |-> "nil",      \* its variable err: nil, read, write, gzclose
     pwErr        |-> "open",     \* what pw was closed with: open, eof, or the error
     prClosed     |-> FALSE,      \* gzipReader.Close() has run
     got          |-> 0,          \* chunks PutObject has read
     read         |-> <<>>,       \* which chunks, in the order it read them
     trailer      |-> FALSE,      \* PutObject has read the gzip trailer
     lastRead     |-> "none",     \* what its last read returned: data, eof, or the error
     uploadErr    |-> "nil",      \* nil, s3 (the service or the network), body (a failed read)
     waited       |-> FALSE,      \* cmdArchive.Wait has returned
     archiveErr   |-> FALSE,
     alsoLogged   |-> FALSE,      \* "git archive command also failed" was logged
     result       |-> "none"]     \* what RunBackup returns: nil, upload, archive

\* a cycle for the valid commit c0ffee has reached PutObject
InitPipe ==
    /\ now = DebounceSecs
    /\ timers = {}
    /\ debounceTimer = DebounceSecs
    /\ head = "c0ffee"
    /\ commitFiles = CommitFilesWith(<<ReadmeFile, ProjectFile>>)
    /\ bucket = "bkt"
    /\ prefix \in Prefixes
    /\ lastKnownHash = "c0ffee"
    /\ processingMu = "Running"
    /\ inv = [i \in InvIds |->
                IF i = 1
                THEN [Unborn EXCEPT !.pc = "put", !.cur = "c0ffee",
                                    !.files = <<ReadmeFile, ProjectFile>>,
                                    !.key = S3Key(prefix, "c0ffee"),
                                    !.calls = <<"query", "fetch", "validate", "backup">>]
                ELSE Unborn]
    /\ store = {}
    /\ lastEvent = 0
    /\ burstLen = 1
    /\ firedFor = 1
    /\ window = EmptyWindow
    /\ failedHead = NoHash
    /\ gitShow = NoOutput
    /\ watcher = Watching
    /\ \E n \in 0..MaxChunks : backupRun = StartedRun(n)

\* git archive writes a chunk to its stdout; it blocks while the pipe is full
SourceWrite ==
    /\ backupRun.main # "idle"
    /\ backupRun.src = "running"
    /\ backupRun.srcLeft > 0
    /\ backupRun.stdoutBuf < StdoutCap
    /\ backupRun' = [backupRun EXCEPT !.srcLeft = @ - 1, !.stdoutBuf = @ + 1,
                                      !.stdoutSeq = Append(@, backupRun.total - backupRun.srcLeft + 1)]
    /\ UNCHANGED <<store, pipeFrame>>

\* git archive exits: after its last chunk with either status, or before it
\* with a failure (not while it is blocked in a write)
SourceExit ==
    /\ backupRun.main # "idle"
    /\ backupRun.src = "running"
    /\ \E failed \in BOOLEAN :
          /\ backupRun.srcLeft = 0 \/ (failed /\ backupRun.stdoutBuf < StdoutCap)
          /\ backupRun' = [backupRun EXCEPT !.src = "exited", !.srcErr = failed]
    /\ UNCHANGED <<store, pipeFrame>>

\* a read of the stdout pipe that reports end-of-file whenever the pipe is
\* empty, the child still running or not
GzReadEmptyIsEof ==
    /\ backupRun.main # "idle"
    /\ backupRun.gz = "read"
    /\ \/ /\ ~backupRun.stdoutClosed
          /\ backupRun.stdoutBuf > 0
          /\ backupRun' = [backupRun EXCEPT !.stdoutBuf = @ - 1, !.gz = "write",
                                            !.stdoutSeq = Tail(@),
                                            !.hold = Head(backupRun.stdoutSeq)]
       \/ /\ ~backupRun.stdoutClosed
          /\ backupRun.stdoutBuf = 0
          /\ backupRun' = [backupRun EXCEPT !.gz = "close"]
       \/ /\ backupRun.stdoutClosed \/ backupRun.stdoutBuf > 0
          /\ backupRun' = [backupRun EXCEPT !.gz = "close", !.err = "read"]
    /\ UNCHANGED <<store, pipeFrame>>

\* io.Copy reads from src: a chunk, the end of the stream once the child has
\* exited and the pipe is empty, or an error (always, once Wait has closed
\* the read end)
GzRead ==
    /\ backupRun.main # "idle"
    /\ backupRun.gz = "read"
    /\ \/ /\ ~backupRun.stdoutClosed
          /\ backupRun.stdoutBuf > 0
          /\ backupRun' = [backupRun EXCEPT !.stdoutBuf = @ - 1, !.gz = "write",
                                            !.stdoutSeq = Tail(@),
                                            !.hold = Head(backupRun.stdoutSeq)]
       \/ /\ ~backupRun.stdoutClosed
          /\ backupRun.stdoutBuf = 0
          /\ backupRun.src = "exited"
          /\ backupRun' = [backupRun EXCEPT !.gz = "close"]
       \/ /\ backupRun.stdoutClosed \/ backupRun.stdoutBuf > 0
          /\ backupRun' = [backupRun EXCEPT !.gz = "close", !.err = "read"]
    /\ UNCHANGED <<store, pipeFrame>>

\* a deferred function that records the error of gzipWriter.Close() whatever
\* err holds, and drops it when the flush failed after a good copy
GzWriteFailsOverwrites ==
    /\ backupRun.main # "idle"
    /\ backupRun.gz \in {"write", "flush"}
    /\ backupRun.prClosed
    /\ backupRun' =
          IF backupRun.gz = "write"
          THEN [backupRun EXCEPT !.gz = "close", !.err = "write"]
          ELSE [backupRun EXCEPT !.gz = "closew",
                                 !.err = IF @ = "nil" THEN "nil" ELSE "gzclose"]
    /\ UNCHANGED <<store, pipeFrame>>

\* a pipe with a buffer: the write returns with nobody reading
GzWriteBuffered ==
    /\ backupRun.main # "idle"
    /\ backupRun.gz \in {"write", "flush"}
    /\ backupRun' = [backupRun EXCEPT !.gz = IF @ = "write" THEN "read" ELSE "closew"]
    /\ UNCHANGED <<store, pipeFrame>>

\* a write to pw (of a chunk, or of the trailer by gzipWriter.Close) fails with
\* ErrClosedPipe once the read end is closed
GzWriteFails ==
    /\ backupRun.main # "idle"
    /\ backupRun.gz \in {"write", "flush"}
    /\ backupRun.prClosed
    /\ backupRun' =
          IF backupRun.gz = "write"
          THEN [backupRun EXCEPT !.gz = "close", !.err = "write"]
          ELSE [backupRun EXCEPT !.gz = "closew",
                                 !.err = IF @ = "nil" THEN "gzclose" ELSE @]
    /\ UNCHANGED <<store, pipeFrame>>

\* the deferred function without gzipWriter.Close()
GzCloseSkipped ==
    /\ backupRun.main # "idle"
    /\ backupRun.gz = "close"
    /\ backupRun' = [backupRun EXCEPT !.gz = "closew"]
    /\ UNCHANGED <<store, pipeFrame>>

\* the deferred gzipWriter.Close(): after a failed write it returns that
\* error at once, otherwise it writes what is left and the trailer to pw
GzClose ==
    /\ backupRun.main # "idle"
    /\ backupRun.gz = "close"
    /\ backupRun' = [backupRun EXCEPT !.gz = IF backupRun.err = "write" THEN "closew" ELSE "flush"]
    /\ UNCHANGED <<store, pipeFrame>>

\* pw.Close() in the place of pw.CloseWithError(err)
GzClosePlain ==
    /\ backupRun.main # "idle"
    /\ backupRun.gz = "closew"
    /\ backupRun' = [backupRun EXCEPT !.gz = "finished", !.pwErr = "eof"]
    /\ UNCHANGED <<store, pipeFrame>>

\* pw.CloseWithError(err): with a nil err the reader sees the end of the data
GzCloseWithError ==
    /\ backupRun.main # "idle"
    /\ backupRun.gz = "closew"
    /\ backupRun' = [backupRun EXCEPT !.gz = "finished",
                                      !.pwErr = IF backupRun.err = "nil" THEN "eof" ELSE backupRun.err]
    /\ UNCHANGED <<store, pipeFrame>>

\* PutObject reads the Body: it takes what the goroutine is writing (the
\* pipe has no buffer: the write returns when the read has taken it)
SinkRead ==
    /\ backupRun.main = "put"
    /\ backupRun.gz \in {"write", "flush"}
    /\ ~backupRun.prClosed
    /\ backupRun' = [backupRun EXCEPT !.got = IF backupRun.gz = "write" THEN @ + 1 ELSE @,
                                      !.read = IF backupRun.gz = "write"
                                               THEN Append(@, backupRun.hold) ELSE @,
                                      !.hold = IF backupRun.gz = "write" THEN 0 ELSE @,
                                      !.trailer = @ \/ backupRun.gz = "flush",
                                      !.lastRead = "data",
                                      !.gz = IF @ = "write" THEN "read" ELSE "closew"]
    /\ UNCHANGED <<store, pipeFrame>>

\* PutObject reads the Body after pw was closed: on the end of the data the
\* upload completes or the service refuses it; on an error PutObject fails
SinkReadClosed ==
    /\ backupRun.main = "put"
    /\ backupRun.gz = "finished"
    /\ backupRun.pwErr # "open"
    /\ \E ok \in BOOLEAN :
          /\ backupRun' =
                [backupRun EXCEPT !.main = "wait",
                                  !.lastRead = IF backupRun.pwErr = "eof" THEN "eof" ELSE backupRun.pwErr,
                                  !.uploadErr = IF backupRun.pwErr # "eof" THEN "body"
                                                ELSE IF ok THEN "nil" ELSE "s3"]
          /\ store' = IF backupRun.pwErr = "eof" /\ ok THEN store \cup {inv[1].key} ELSE store
    /\ UNCHANGED pipeFrame

\* PutObject fails before it has read the whole Body
SinkFails ==
    /\ backupRun.main = "put"
    /\ backupRun' = [backupRun EXCEPT !.main = "wait", !.uploadErr = "s3"]
    /\ UNCHANGED <<store, pipeFrame>>

\* cmdArchive.Wait() called in a goroutine of its own, next to PutObject
WaitCallableBesidePut(run) == run.main \in {"put", "wait"}

\* where in RunBackup cmdArchive.Wait() is called: after PutObject returned
WaitCallable(run) == run.main = "wait"

\* the archive error first, then the upload error
RunBackupErrorArchiveFirst(uploadErr, archiveErr) ==
    IF archiveErr THEN "archive"
    ELSE IF uploadErr # "nil" THEN "upload"
    ELSE "nil"

\* the error RunBackup returns: the upload error first, then the archive error
RunBackupError(uploadErr, archiveErr) ==
    IF uploadErr # "nil" THEN "upload"
    ELSE IF archiveErr THEN "archive"
    ELSE "nil"

\* cmdArchive.Wait() returns once the child has exited, and closes the read
\* end of stdoutPipe; then the errors are sorted out
Wait ==
    /\ WaitCallable(backupRun)
    /\ ~backupRun.waited
    /\ backupRun.src = "exited"
    /\ backupRun' =
          [backupRun EXCEPT !.waited = TRUE,
                            !.stdoutClosed = TRUE,
                            !.archiveErr = backupRun.srcErr,
                            !.alsoLogged = backupRun.uploadErr # "nil" /\ backupRun.srcErr,
                            !.result = RunBackupError(backupRun.uploadErr, backupRun.srcErr),
                            !.main = IF @ = "wait" THEN "result" ELSE @]
    /\ UNCHANGED <<store, pipeFrame>>

\* RunBackup returns: the deferred gzipReader.Close() runs
RunBackupReturns ==
    /\ backupRun.main = "result"
    /\ backupRun' = [backupRun EXCEPT !.main = "returned", !.prClosed = TRUE]
    /\ UNCHANGED <<store, pipeFrame>>

\* handleCommitCheck has the result of RunBackup: it logs the outcome and
\* returns, and the deferred Unlock runs
BackupResult ==
    /\ inv[1].pc = "put"
    /\ backupRun.main = "returned"
    /\ LET rec == [inv[1] EXCEPT !.calls = @ \o <<"put", "wait">>]
       IN  Return(1, rec, IF backupRun.result = "nil" THEN "backup_ok" ELSE "backup_failed",
                  lastKnownHash)

NextPipe ==
    \/ SourceWrite
    \/ SourceExit
    \/ GzRead
    \/ GzWriteFails
    \/ GzClose
    \/ GzCloseWithError
    \/ SinkRead
    \/ SinkReadClosed
    \/ SinkFails
    \/ Wait
    \/ RunBackupReturns
    \/ BackupResult

SpecPipe == InitPipe /\ [][NextPipe]_vars

\* ------------------------------------------------------------------------
\* monitor.Start in detail: the checks before the event loop, the watches
\* added to the fsnotify watcher, and the events the loop receives
\* ------------------------------------------------------------------------

GitDir == ".git"

RefsDir == ".git/refs"

HeadsDir == ".git/refs/heads"

ObjectsDir == ".git/objects"

HooksDir == ".git/hooks"

\* a directory made after Start has entered the loop (a branch feature/x)
FeatureDir == ".git/refs/heads/feature"

pathsToWatch == <<GitDir, RefsDir>>

\* the directories that may exist when Start runs
StartDirs == {GitDir, RefsDir, HeadsDir, ObjectsDir, HooksDir}

\* the directory trees Start may find: no .git, a bare .git, and more
DirTrees ==
    { {},
      {GitDir, ObjectsDir, HooksDir},
      {GitDir, RefsDir, ObjectsDir},
      StartDirs }

\* the bits of fsnotify.Op
Ops == {"Create", "Write", "Remove", "Rename", "Chmod"}

\* d is root or lies below it
Under(d, root) == d = root \/ HasPrefix(Chars(d), Chars(root) \o <<"/">>)

\* the directories addRecursiveWatch calls watcher.Add for during its walk of
\* root: those below root, not inside or at a directory named objects or hooks
Walked(root, dirs) ==
    {d \in dirs :
        /\ Under(d, root)
        /\ \A a \in dirs :
              (Under(d, a) /\ Under(a, root)) => Str(Base(Chars(a))) \notin {"objects", "hooks"}}

\* addRecursiveWatch: the watches after it and the error it returns; adds
\* that fail during the walk are logged, the one of the root at the end is
\* returned
addRecursiveWatch(watches, rootPath, dirs, addFails) ==
    [watches |-> watches \cup ((Walked(rootPath, dirs) \cup {rootPath}) \ addFails),
     err     |-> rootPath \in addFails]

\* Start has been called: nothing is checked yet
Starting(dirs, newOk, addFails) ==
    [pc          |-> "stat",    \* stat, hash, new, add, loop, exited
     dirs        |-> dirs,      \* the directories that exist
     newOk       |-> newOk,     \* fsnotify.NewWatcher will succeed
     addFails    |-> addFails,  \* the paths watcher.Add fails for
     watches     |-> {},        \* the paths the watcher watches
     next        |-> 1,         \* the index in pathsToWatch of the loop at 67
     watchErrors |-> 0,
     lastOp      |-> {},        \* Op of the last event received, {} before the first
     initial     |-> NoHash,    \* what the initial GetCurrentCommitHash returned
     initialErr  |-> FALSE]     \* and whether it returned an error

InitStart ==
    /\ now = 0
    /\ timers = {}
    /\ debounceTimer = NoTimer
    /\ head \in {NoHash, "abc123"}
    /\ commitFiles = CommitFilesWith(<<ReadmeFile, ProjectFile>>)
    /\ bucket = "bkt"
    /\ prefix = ""
    /\ lastKnownHash = NoHash
    /\ processingMu = "Idle"
    /\ inv = [i \in InvIds |-> Unborn]
    /\ store = {}
    /\ lastEvent = -1
    /\ burstLen = 0
    /\ firedFor = 0
    /\ window = EmptyWindow
    /\ failedHead = NoHash
    /\ gitShow = NoOutput
    /\ backupRun = NoRun
    /\ \E dirs \in DirTrees : \E newOk \in BOOLEAN : \E addFails \in SUBSET {GitDir, RefsDir, HeadsDir} :
          watcher = Starting(dirs, newOk, addFails)

\* every variable but watcher and lastKnownHash
startFrame ==
    <<now, timers, debounceTimer, head, commitFiles, bucket, prefix, processingMu, inv,
      store, lastEvent, burstLen, firedFor, window, failedHead, backupRun,
      gitShow>>

\* os.Stat(gitDir): log.Fatalf when the directory does not exist
StatGitDir ==
    /\ watcher.pc = "stat"
    /\ watcher' = [watcher EXCEPT !.pc = IF GitDir \in watcher.dirs THEN "hash" ELSE "exited"]
    /\ UNCHANGED <<lastKnownHash, startFrame>>

\* a start that gives up when the initial query fails
InitialHashOrExit ==
    /\ watcher.pc = "hash"
    /\ \E r \in GetCurrentCommitHash(head) :
          /\ lastKnownHash' = IF r.err THEN NoHash ELSE r.hash
          /\ watcher' = [watcher EXCEPT !.pc = IF r.err THEN "exited" ELSE "new",
                                        !.initial = r.hash, !.initialErr = r.err]
    /\ UNCHANGED startFrame

\* a start that logs the initial hash and does not keep it
InitialHashDiscarded ==
    /\ watcher.pc = "hash"
    /\ \E r \in GetCurrentCommitHash(head) :
          /\ lastKnownHash' = NoHash
          /\ watcher' = [watcher EXCEPT !.pc = "new", !.initial = r.hash, !.initialErr = r.err]
    /\ UNCHANGED startFrame

\* the initial hash: empty after an error
InitialHash ==
    /\ watcher.pc = "hash"
    /\ \E r \in GetCurrentCommitHash(head) :
          /\ lastKnownHash' = IF r.err THEN NoHash ELSE r.hash
          /\ watcher' = [watcher EXCEPT !.pc = "new", !.initial = r.hash, !.initialErr = r.err]
    /\ UNCHANGED startFrame

\* fsnotify.NewWatcher(): log.Fatal on an error
NewWatcher ==
    /\ watcher.pc = "new"
    /\ watcher' = [watcher EXCEPT !.pc = IF watcher.newOk THEN "add" ELSE "exited"]
    /\ UNCHANGED <<lastKnownHash, startFrame>>

\* one turn of the loop over pathsToWatch: a path that does not exist is
\* skipped, an error of addRecursiveWatch is counted
AddWatch ==
    /\ watcher.pc = "add"
    /\ watcher.next <= Len(pathsToWatch)
    /\ LET p == pathsToWatch[watcher.next]
           r == addRecursiveWatch(watcher.watches, p, watcher.dirs, watcher.addFails)
       IN  watcher' =
              IF p \in watcher.dirs
              THEN [watcher EXCEPT !.next = @ + 1,
                                   !.watches = r.watches,
                                   !.watchErrors = IF r.err THEN @ + 1 ELSE @]
              ELSE [watcher EXCEPT !.next = @ + 1]
    /\ UNCHANGED <<lastKnownHash, startFrame>>

\* after the loop over pathsToWatch: a warning when watchErrors > 0, and the
\* event loop is entered
EnterLoop ==
    /\ watcher.pc = "add"
    /\ watcher.next > Len(pathsToWatch)
    /\ watcher' = [watcher EXCEPT !.pc = "loop"]
    /\ UNCHANGED <<lastKnownHash, startFrame>>

\* an event that resets the timer whatever its Op
QualifiesAny(op) == op # {}

\* event.Has(Write) || event.Has(Create) || event.Has(Rename)
Qualifies(op) == "Write" \in op \/ "Create" \in op \/ "Rename" \in op

\* the event loop receives an event for a file in the watched directory d
WatcherEvent(op, d) ==
    /\ watcher.pc = "loop"
    /\ d \in watcher.watches
    /\ d \in watcher.dirs
    /\ op # {}
    /\ watcher' = [watcher EXCEPT !.lastOp = op]
    /\ IF Qualifies(op)
       THEN Debounce
       ELSE UNCHANGED <<lastKnownHash, startFrame>>

\* the event loop receives an error of the watcher: it is logged
WatcherError ==
    /\ watcher.pc = "loop"
    /\ UNCHANGED vars

\* a new directory that is given a watch when its Create event arrives
MkDirWatched ==
    /\ watcher.pc = "loop"
    /\ HeadsDir \in watcher.dirs
    /\ FeatureDir \notin watcher.dirs
    /\ IF HeadsDir \in watcher.watches
       THEN /\ watcher' = [watcher EXCEPT !.dirs = @ \cup {FeatureDir}, !.lastOp = {"Create"},
                                          !.watches = @ \cup {FeatureDir}]
            /\ Debounce
       ELSE /\ watcher' = [watcher EXCEPT !.dirs = @ \cup {FeatureDir}]
            /\ UNCHANGED <<lastKnownHash, startFrame>>

\* git makes a directory below refs/heads; when refs/heads is watched the
\* loop receives its Create event
MkDir ==
    /\ watcher.pc = "loop"
    /\ HeadsDir \in watcher.dirs
    /\ FeatureDir \notin watcher.dirs
    /\ IF HeadsDir \in watcher.watches
       THEN /\ watcher' = [watcher EXCEPT !.dirs = @ \cup {FeatureDir}, !.lastOp = {"Create"}]
            /\ Debounce
       ELSE /\ watcher' = [watcher EXCEPT !.dirs = @ \cup {FeatureDir}]
            /\ UNCHANGED <<lastKnownHash, startFrame>>

NextStart ==
    \/ StatGitDir
    \/ InitialHash
    \/ NewWatcher
    \/ AddWatch
    \/ EnterLoop
    \/ \E op \in SUBSET Ops : \E d \in StartDirs : WatcherEvent(op, d)
    \/ WatcherError
    \/ MkDir
    \/ (watcher.pc = "loop" /\ Tick)
    \/ (watcher.pc = "loop" /\ \E d \in timers : TimerFire(d))

SpecStart == InitStart /\ [][NextStart]_vars

\* Start followed by the commit checks: the repository is complete, the
\* watcher can be made and every path can be added
InitBoot ==
    /\ now = 0
    /\ timers = {}
    /\ debounceTimer = NoTimer
    /\ head \in {NoHash, "abc123"}
    /\ commitFiles = CommitFilesWith(<<ReadmeFile, ProjectFile>>)
    /\ bucket = "bkt"
    /\ prefix = ""
    /\ lastKnownHash = NoHash
    /\ processingMu = "Idle"
    /\ inv = [i \in InvIds |-> Unborn]
    /\ store = {}
    /\ lastEvent = -1
    /\ burstLen = 0
    /\ firedFor = 0
    /\ window = EmptyWindow
    /\ failedHead = NoHash
    /\ gitShow = NoOutput
    /\ backupRun = NoRun
    /\ watcher = Starting(StartDirs, TRUE, {})

NextBoot ==
    \/ StatGitDir
    \/ InitialHash
    \/ NewWatcher
    \/ AddWatch
    \/ EnterLoop
    \/ (watcher.pc = "loop" /\ Next)

SpecBoot == InitBoot /\ [][NextBoot]_vars

\* ------------------------------------------------------------------------
\* GetChangedFilesInCommit: git show --name-status and the scan of its output
\* ------------------------------------------------------------------------

\* the longest change set followed line by line
MaxLines == 2

Tab == "\t"

\* unicode.IsSpace, for the characters that occur
WhiteSpace == {" ", "\t", "\n", "\r", "\f"}

\* strings.TrimSpace
TrimSpace(s) ==
    LET keep == {k \in 1..Len(s) : s[k] \notin WhiteSpace}
    IN  IF keep = {} THEN <<>> ELSE SubSeq(s, MinOf(keep), MaxOf(keep))

\* strings.SplitN(s, c, n) for a separator of one character and n > 0
RECURSIVE SplitN(_, _, _)
SplitN(s, c, n) ==
    IF n <= 1 \/ Positions(s, c) = {}
    THEN <<s>>
    ELSE LET k == MinOf(Positions(s, c))
         IN  <<SubSeq(s, 1, k - 1)>> \o SplitN(SubSeq(s, k + 1, Len(s)), c, n - 1)

\* the changes a commit can hold: a status with one path, or a rename or a
\* copy with its similarity score, the old path and the new one. File names
\* may hold spaces, also at their end; git prints such names as they are.
ShownPaths == {<<"a", ".", "f", "l", "p">>, <<"b", " ", "c", ".", "f", "l", "p">>, <<"d", ".", "f", "l", "p", " ">>}

OldPaths == {<<"o", "l", "d", ".", "f", "l", "p">>}

Changes ==
    [status : {<<"M">>, <<"A">>, <<"D">>, <<"T">>}, old : {<<>>}, path : ShownPaths]
        \cup [status : {<<"R", "1", "0", "0">>, <<"C", "0", "7", "5">>}, old : OldPaths, path : ShownPaths]

ChangeSets == UNION {[1..k -> Changes] : k \in 0..MaxLines}

\* the line git show --name-status prints for a change
NameStatusLine(c) ==
    IF c.old = <<>>
    THEN c.status \o <<Tab>> \o c.path
    ELSE c.status \o <<Tab>> \o c.old \o <<Tab>> \o c.path

\* the body of the scanner loop: what one line of output adds to files
ParseLine(files, text) ==
    LET line  == TrimSpace(text)
        parts == SplitN(line, Tab, 2)
    IN  IF line = <<>> \/ Len(parts) # 2
        THEN files
        ELSE LET status   == parts[1]
                 fileName == parts[2]
                 renameParts == SplitN(line, Tab, 3)
             IN  IF HasPrefix(status, <<"R">>) \/ HasPrefix(status, <<"C">>)
                 THEN IF Len(renameParts) = 3 THEN Append(files, renameParts[3]) ELSE files
                 ELSE IF status # <<"D">> THEN Append(files, fileName) ELSE files

\* a call of GetChangedFilesInCommit for a commit with the given changes
ShowCalled(changes) ==
    [pc      |-> "show",    \* show, scan, done
     changes |-> changes,   \* the changes of the commit
     out     |-> <<>>,      \* the lines of the output of git show
     next    |-> 1,         \* the line the scanner is at
     files   |-> <<>>,
     err     |-> FALSE]     \* the call returns an error

\* every variable but gitShow
parseFrame ==
    <<now, timers, debounceTimer, head, commitFiles, bucket, prefix, lastKnownHash,
      processingMu, inv, store, lastEvent, burstLen, firedFor, window, failedHead,
      backupRun, watcher>>

InitParse ==
    /\ now = 0
    /\ timers = {}
    /\ debounceTimer = NoTimer
    /\ head = "abc123"
    /\ commitFiles = CommitFilesWith(<<ReadmeFile, ProjectFile>>)
    /\ bucket = "bkt"
    /\ prefix = ""
    /\ lastKnownHash = NoHash
    /\ processingMu = "Idle"
    /\ inv = [i \in InvIds |-> Unborn]
    /\ store = {}
    /\ lastEvent = -1
    /\ burstLen = 0
    /\ firedFor = 0
    /\ window = EmptyWindow
    /\ failedHead = NoHash
    /\ backupRun = NoRun
    /\ watcher = Watching
    /\ \E changes \in ChangeSets : gitShow = ShowCalled(changes)

\* cmd.Output() returns an error: "git show failed for commit"
GitShowFails ==
    /\ gitShow.pc = "show"
    /\ gitShow' = [gitShow EXCEPT !.pc = "done", !.err = TRUE]
    /\ UNCHANGED parseFrame

\* cmd.Output() returns the output: one line for each change, in their order
GitShowOutput ==
    /\ gitShow.pc = "show"
    /\ gitShow' = [gitShow EXCEPT !.pc = "scan",
                                  !.out = [k \in 1..Len(gitShow.changes) |->
                                             NameStatusLine(gitShow.changes[k])]]
    /\ UNCHANGED parseFrame

\* scanner.Scan() returns true: one turn of the loop
ScanLine ==
    /\ gitShow.pc = "scan"
    /\ gitShow.next <= Len(gitShow.out)
    /\ gitShow' = [gitShow EXCEPT !.next = @ + 1,
                                  !.files = ParseLine(@, gitShow.out[gitShow.next])]
    /\ UNCHANGED parseFrame

\* scanner.Scan() returns false at the end of the output: return files, nil
\* (scanner.Err() is nil: a strings.Reader does not fail, and no line of git
\* show reaches the 64 KiB the scanner takes)
ScanEnd ==
    /\ gitShow.pc = "scan"
    /\ gitShow.next > Len(gitShow.out)
    /\ gitShow' = [gitShow EXCEPT !.pc = "done"]
    /\ UNCHANGED parseFrame

NextParse ==
    \/ GitShowFails
    \/ GitShowOutput
    \/ ScanLine
    \/ ScanEnd

SpecParse == InitParse /\ [][NextParse]_vars
\* ------------------------------------------------------------------------
\* Properties
\* ------------------------------------------------------------------------

\* the callbacks inside the critical section
Critical == {i \in InvIds : InCritical(i)}

\* the callbacks whose RunBackup has an archive job running
Archiving == {i \in InvIds : InBackup(i)}

\* C1: whatever the interleaving of timer expiries, at most one callback is
\* inside the critical section of handleCommitCheck and at most one archive
\* job of RunBackup is active; the token is Running exactly while a callback
\* is inside.
C1_MutualExclusion ==
    /\ Cardinality(Critical) <= 1
    /\ Cardinality(Archiving) <= 1
    /\ (processingMu = "Running") <=> (Critical # {})

\* a timer has expired while the archive job of another callback is active
C1_Witness ==
    \E i, j \in InvIds : i # j /\ InBackup(i) /\ inv[j].pc = "start"

\* C2: a callback that runs while the token is held returns in its first step
\* as dropped, having queried nothing, leaving lastKnownHash, the token, the
\* timers and the store alone; a dropped callback only ends, and the release of
\* the token spawns no callback and arms no timer.
C2_DroppedNotQueued ==
    /\ [][\A i \in InvIds :
            (inv[i].pc = "start" /\ processingMu = "Running" /\ inv'[i] # inv[i])
            => /\ inv'[i].pc = "done"
               /\ inv'[i].outcome = "dropped"
               /\ inv'[i].calls = <<>>
               /\ lastKnownHash' = lastKnownHash
               /\ processingMu' = processingMu
               /\ timers' = timers
               /\ debounceTimer' = debounceTimer
               /\ store' = store]_vars
    /\ [][\A i \in InvIds :
            inv[i].outcome = "dropped" => inv'[i] \in {inv[i], Unborn}]_vars
    /\ [][(processingMu = "Running" /\ processingMu' = "Idle")
            => /\ timers' = timers
               /\ \A j \in InvIds : inv[j].pc = "unborn" => inv'[j].pc = "unborn"]_vars

\* a callback was dropped, and the cycle that held the token has since ended
C2_Witness ==
    \E i, j \in InvIds :
        /\ inv[i].outcome = "dropped"
        /\ inv[j].pc = "done" /\ inv[j].outcome # "dropped"
        /\ processingMu = "Idle"

\* C3: a cycle that finds a new commit H while lastKnownHash is P remembers P
\* (and H differs from P); when GetChangedFilesInCommit then fails, the cycle
\* ends with lastKnownHash = P, having called neither Validate nor RunBackup
\* and having put nothing.
C3_Rollback ==
    /\ [][\A i \in InvIds :
            (inv[i].pc = "query" /\ inv'[i].pc = "fetch")
            => /\ inv'[i].orig = lastKnownHash
               /\ inv'[i].cur # lastKnownHash
               /\ lastKnownHash' = inv'[i].cur]_vars
    /\ [][\A i \in InvIds :
            (inv[i].pc = "fetch" /\ inv'[i].outcome = "fetch_error")
            => /\ inv'[i].pc = "done"
               /\ lastKnownHash' = inv[i].orig
               /\ inv'[i].calls = <<"query", "fetch">>
               /\ inv'[i].putKeys = <<>>
               /\ store' = store]_vars

\* a cycle ended on a failed fetch of a commit, and lastKnownHash is not that commit
C3_Witness ==
    \E i \in InvIds :
        /\ inv[i].outcome = "fetch_error"
        /\ inv[i].cur \in Commits
        /\ lastKnownHash # inv[i].cur

\* C4: when Validate reports violations for the fetched change set of the new
\* commit H, the cycle ends there as rejected: RunBackup is not called, nothing
\* is put, the store is untouched, and lastKnownHash is H.
C4_AdvanceOnReject ==
    [][\A i \in InvIds :
          (inv[i].pc = "validate" /\ inv'[i] # inv[i] /\ inv'[i].verrs # <<>>)
          => /\ inv'[i].pc = "done"
             /\ inv'[i].outcome = "rejected"
             /\ inv'[i].calls = <<"query", "fetch", "validate">>
             /\ inv'[i].putKeys = <<>>
             /\ store' = store
             /\ inv[i].cur \in Commits
             /\ lastKnownHash' = inv[i].cur]_vars

\* a cycle ended as rejected and lastKnownHash is the rejected commit
C4_Witness ==
    \E i \in InvIds :
        /\ inv[i].outcome = "rejected"
        /\ inv[i].verrs # <<>>
        /\ lastKnownHash = inv[i].cur

\* C5: whenever RunBackup returns an error for the valid commit H, the cycle
\* ends with lastKnownHash = H and with no object at the key of H in the store,
\* also when the put succeeded and git archive then reported a failure.
C5_AdvanceOnPipelineFailure ==
    [][\A i \in InvIds :
          (inv[i].pc \in {"backup", "wait"} /\ inv'[i].outcome = "backup_failed")
          => /\ lastKnownHash' = inv[i].cur
             /\ S3Key(prefix, inv[i].cur) \notin store']_vars

\* C6: in a sequence of qualifying events, each less than DebounceSecs after
\* the one before, handleCommitCheck is spawned exactly once: not before
\* DebounceSecs have passed since the last event, once they have passed, never
\* twice, and every spawn happens exactly DebounceSecs after the last event.
C6_Coalescing ==
    /\ [](lastEvent >= 0 =>
             /\ firedFor <= 1
             /\ (now < lastEvent + DebounceSecs => firedFor = 0)
             /\ (now > lastEvent + DebounceSecs => firedFor = 1))
    /\ [][firedFor' = firedFor + 1
            => (firedFor = 0 /\ now = lastEvent + DebounceSecs)]_vars

\* a sequence of two or more events has had its one callback
C6_Witness ==
    burstLen >= 2 /\ firedFor = 1 /\ now = lastEvent + DebounceSecs

\* README.md and .gitignore are in the index
BothTracked == {"README.md", ".gitignore"}

\* the project folder of the end-to-end scenario
SongFolder == "song-artist-feat-x-120bpm-prodby.me"

\* the elements of a sequence
Elems(s) == {s[k] : k \in 1..Len(s)}

\* the path holds a space character
HasSpace(file) == Contains(Chars(file), <<" ">>)

\* the callback was spawned by the expiry that ended a window in which
\* commits landed, the first C and the last D # C, with no callback in flight
FromBurst(i) ==
    inv[i].burst # NoBurst /\ inv[i].burst.first # inv[i].burst.last

\* C7: when commits C and then D land inside one debounce window while no
\* callback is in flight, the expiry spawns one callback and it is the only
\* one in flight. If HEAD is still D when it queries, then, unless the query
\* fails or answers empty, it observes D and lastKnownHash becomes D; a cycle
\* that observed D ends with lastKnownHash = D unless the fetch failed, and
\* calls RunBackup for D only, never for C.
C7_LatestWins ==
    /\ [][\A i \in InvIds :
            (inv[i].pc = "unborn" /\ inv'[i].pc = "start" /\ FromBurst(i)')
            => /\ {j \in InvIds : InFlight(j)'} = {i}
               /\ inv'[i].burst.last = head]_vars
    /\ [][\A i \in InvIds :
            (FromBurst(i) /\ inv[i].pc = "query" /\ inv'[i] # inv[i]
                /\ head = inv[i].burst.last)
            => \/ inv'[i].outcome = "query_error"
               \/ inv'[i].cur = NoHash
               \/ /\ inv'[i].cur = inv[i].burst.last
                  /\ lastKnownHash' = inv[i].burst.last
                  /\ inv'[i].outcome \in {"none", "no_new_commit"}]_vars
    /\ [][\A i \in InvIds :
            (FromBurst(i) /\ inv[i].pc \in {"fetch", "validate", "backup", "put", "wait"}
                /\ inv[i].cur = inv[i].burst.last /\ inv'[i] # inv[i])
            => /\ inv'[i].cur = inv[i].burst.last
               /\ (inv'[i].outcome # "fetch_error" => lastKnownHash' = inv[i].burst.last)
               /\ (inv'[i].pc = "put"
                     => /\ inv'[i].key = S3Key(prefix, inv[i].burst.last)
                        /\ inv'[i].key # S3Key(prefix, inv[i].burst.first))
               /\ Elems(inv'[i].putKeys) \subseteq {S3Key(prefix, inv[i].burst.last)}]_vars

\* C7 as stated: the callback of the burst, ending while HEAD is still D, has
\* run a cycle that observed D, and lastKnownHash is D.
C7_AsStated ==
    [][\A i \in InvIds :
          (FromBurst(i) /\ InFlight(i) /\ inv'[i].pc = "done" /\ head = inv[i].burst.last)
          => /\ inv'[i].outcome # "dropped"
             /\ inv'[i].cur = inv[i].burst.last
             /\ lastKnownHash' = inv[i].burst.last]_vars

\* the callback of a burst C, D has observed D and advanced lastKnownHash to it
C7_Witness ==
    \E i \in InvIds :
        /\ FromBurst(i)
        /\ inv[i].pc = "put"
        /\ inv[i].cur = inv[i].burst.last
        /\ lastKnownHash = inv[i].burst.last
        /\ inv[i].key = S3Key(prefix, inv[i].burst.last)

C8_WitnessAccept ==
    \E i \in InvIds :
        /\ inv[i].cur = "c0ffee"
        /\ commitFiles["c0ffee"] = <<ReadmeFile, ProjectFile>>
        /\ inv[i].outcome = "backup_ok"
        /\ store = {"backups/commit-c0ffee.tar.gz"}

C10_QueryFailure ==
    /\ [][\A i \in InvIds :
            (inv[i].pc = "query" /\ inv'[i].outcome = "query_error")
            => /\ inv'[i].pc = "done"
               /\ lastKnownHash' = lastKnownHash
               /\ inv'[i].calls = <<"query">>
               /\ inv'[i].putKeys = <<>>
               /\ store' = store
               /\ timers' = timers
               /\ debounceTimer' = debounceTimer]_vars
    /\ [][\A i \in InvIds :
            inv[i].outcome = "query_error" => inv'[i] \in {inv[i], Unborn}]_vars

\* a cycle ended on a failed query while a commit was known
C10_Witness ==
    \E i \in InvIds : inv[i].outcome = "query_error" /\ lastKnownHash \in Commits

\* the ways a cycle that acquired the token ends
CycleOutcomes ==
    {"query_error", "no_new_commit", "empty_head", "fetch_error", "rejected",
     "backup_ok", "backup_failed"}

\* C11: on every path by which a callback that acquired the token returns
\* (query error, no new commit, empty head, fetch error, reject, backup
\* success, backup failure) the token is Idle after the return, and no
\* callback is left inside the critical section.
C11_TokenReleased ==
    [][\A i \in InvIds :
          (InCritical(i) /\ inv'[i].pc = "done")
          => /\ inv'[i].outcome \in CycleOutcomes
             /\ processingMu' = "Idle"
             /\ \A j \in InvIds : ~InCritical(j)']_vars

\* a cycle has returned from a failed RunBackup and the token is Idle
C11_Witness ==
    \E i \in InvIds :
        /\ inv[i].pc = "done"
        /\ inv[i].outcome = "backup_failed"
        /\ processingMu = "Idle"

\* C12: when the queried hash equals lastKnownHash, or is empty, the cycle
\* ends at the query: lastKnownHash is unchanged, only the query was called,
\* nothing is put; and a query that ends as no_new_commit or empty_head saw
\* exactly that (empty_head: an empty hash while lastKnownHash is not empty).
C12_NoOp ==
    /\ [][\A i \in InvIds :
            (/\ inv[i].pc = "query"
             /\ inv'[i] # inv[i]
             /\ inv'[i].cur \in {lastKnownHash, NoHash})
            => /\ inv'[i].pc = "done"
               /\ inv'[i].outcome \in {"no_new_commit", "empty_head", "query_error"}
               /\ lastKnownHash' = lastKnownHash
               /\ inv'[i].calls = <<"query">>
               /\ inv'[i].putKeys = <<>>
               /\ store' = store]_vars
    /\ [][\A i \in InvIds :
            (inv[i].pc = "query" /\ inv'[i] # inv[i])
            => /\ (inv'[i].outcome = "no_new_commit" => inv'[i].cur = lastKnownHash)
               /\ (inv'[i].outcome = "empty_head"
                     => (inv'[i].cur = NoHash /\ lastKnownHash # NoHash))]_vars

\* a cycle found an empty head while a commit was known and changed nothing
C12_Witness ==
    \E i \in InvIds :
        /\ inv[i].outcome = "empty_head"
        /\ inv[i].calls = <<"query">>
        /\ lastKnownHash \in Commits

\* C13: the step that detects the new commit H sets lastKnownHash to H before
\* the fetch is called; after that the cycle changes lastKnownHash only when
\* the fetch fails, back to the value saved; a reject and a RunBackup error
\* leave it at H.
C13_OptimisticAdvance ==
    /\ [][\A i \in InvIds :
            (inv[i].pc = "query" /\ inv'[i].pc = "fetch")
            => /\ lastKnownHash' = inv'[i].cur
               /\ inv'[i].cur \in Commits
               /\ inv'[i].calls = <<"query">>]_vars
    /\ [][\A i \in InvIds :
            (inv[i].pc \in {"fetch", "validate", "backup", "put", "wait"} /\ inv'[i] # inv[i])
            => /\ lastKnownHash = inv[i].cur
               /\ IF inv'[i].outcome = "fetch_error"
                  THEN lastKnownHash' = inv[i].orig
                  ELSE lastKnownHash' = inv[i].cur]_vars

\* a cycle ended on a RunBackup error and lastKnownHash is still its commit
C13_Witness ==
    \E i \in InvIds :
        /\ inv[i].outcome = "backup_failed"
        /\ inv[i].cur \in Commits
        /\ lastKnownHash = inv[i].cur
        /\ inv[i].putKeys # <<>>

\* C14: once RunBackup has failed for H, and for as long as HEAD stays H,
\* lastKnownHash is H, no callback is at or past the fetch (so no validation and
\* no pipeline run starts), and every cycle that queries ends at the query with
\* nothing called but the query and nothing put.
C14_NoRetry ==
    /\ [](failedHead # NoHash =>
             /\ head = failedHead
             /\ lastKnownHash = failedHead
             /\ \A i \in InvIds :
                   inv[i].pc \notin {"fetch", "validate", "backup", "put", "wait"})
    /\ [][\A i \in InvIds :
            (failedHead # NoHash /\ failedHead' = failedHead
                /\ inv[i].pc = "query" /\ inv'[i] # inv[i])
            => /\ inv'[i].pc = "done"
               /\ inv'[i].calls = <<"query">>
               /\ store' = store
               /\ lastKnownHash' = failedHead]_vars

\* RunBackup failed for the head, and a later cycle holds the token, about
\* to query
C14_Witness ==
    /\ failedHead # NoHash
    /\ \E i, j \in InvIds :
          /\ inv[i].outcome = "backup_failed" /\ inv[i].cur = failedHead
          /\ inv[j].pc = "query"

\* C15: after startup lastKnownHash changes only in a step of the one
\* callback that is inside the critical section, the token being Running, so
\* the advance and the rollback of a cycle are never separated by a write of
\* another cycle.
C15_SingleWriter ==
    /\ [][lastKnownHash' # lastKnownHash
            => /\ processingMu = "Running"
               /\ \E i \in InvIds :
                     /\ Critical = {i}
                     /\ inv'[i] # inv[i]
                     /\ \A j \in InvIds \ {i} : inv'[j] = inv[j]]_vars
    /\ [][\A i \in InvIds :
            (inv[i].pc \in {"fetch", "validate", "backup", "put", "wait"} /\ inv'[i] = inv[i])
            => lastKnownHash' = lastKnownHash]_vars

\* a cycle has written lastKnownHash while another callback waits at the lock
C15_Witness ==
    \E i, j \in InvIds :
        /\ i # j
        /\ inv[i].pc = "fetch"
        /\ lastKnownHash = inv[i].cur
        /\ lastKnownHash # inv[i].orig
        /\ inv[j].pc = "start"

\* the calls of a cycle that runs to the end, in their order
CallOrder == <<"query", "fetch", "validate", "backup", "put", "wait">>

\* C16: the calls of a cycle are a prefix of query, fetch, validate, RunBackup
\* (its put and its wait); Validate is given the change set fetched for the
\* commit of the cycle, RunBackup is called only when Validate found no
\* violation for it, with the key of that commit, and a cycle whose fetch
\* failed or whose change set was rejected calls nothing more.
C16_StepOrder ==
    /\ [](\A i \in InvIds :
            /\ Len(inv[i].calls) <= Len(CallOrder)
            /\ inv[i].calls = SubSeq(CallOrder, 1, Len(inv[i].calls))
            /\ (inv[i].outcome = "fetch_error" => inv[i].calls = <<"query", "fetch">>)
            /\ (inv[i].verrs # <<>> => inv[i].calls = <<"query", "fetch", "validate">>)
            /\ ("backup" \in Elems(inv[i].calls)
                  => (inv[i].verrs = <<>> /\ inv[i].cur \in Commits)))
    /\ [][\A i \in InvIds :
            /\ (inv[i].pc = "fetch" /\ inv'[i].pc = "validate")
                  => inv'[i].files = commitFiles[inv[i].cur]
            /\ (inv[i].pc = "validate" /\ inv'[i].pc = "backup")
                  => /\ inv[i].files = commitFiles[inv[i].cur]
                     /\ \E tr \in TrackedSets : Validate(tr, inv[i].files).isValid
            /\ (inv[i].pc = "backup" /\ inv'[i].pc = "put")
                  => inv'[i].key = S3Key(prefix, inv[i].cur)
            /\ (inv[i].pc \in {"fetch", "validate", "backup", "put", "wait"} /\ inv'[i] # inv[i])
                  => inv'[i].cur = inv[i].cur]_vars

\* a cycle has made all its calls
C16_Witness ==
    \E i \in InvIds : inv[i].calls = CallOrder /\ inv[i].outcome = "backup_ok"


\* C17: once the goroutine's read from the stdout of git archive has failed,
\* its err keeps that error, the write end of the pipe is closed with it and
\* with nothing else, the read of PutObject that follows the close returns it
\* and PutObject fails: PutObject never sees the end of the data and no
\* object is stored. While PutObject is reading, the goroutine is never
\* blocked on its way to that close.
C17_PoisonedClose ==
    /\ [](backupRun.err = "read" =>
            /\ backupRun.pwErr \in {"open", "read"}
            /\ (backupRun.gz = "finished" => backupRun.pwErr = "read")
            /\ backupRun.lastRead # "eof"
            /\ (backupRun.main \notin {"idle", "put"} => backupRun.uploadErr # "nil")
            /\ store = {}
            /\ (backupRun.main = "put" /\ backupRun.gz # "finished"
                  => ENABLED (GzClose \/ SinkRead \/ GzCloseWithError)))
    /\ [][/\ (backupRun.err = "read" => backupRun'.err = "read")
          /\ (backupRun.pwErr = "read" /\ backupRun.main = "put" /\ backupRun'.main # "put")
                => ((backupRun'.lastRead = "read" /\ backupRun'.uploadErr = "body")
                       \/ (backupRun'.lastRead # "eof" /\ backupRun'.uploadErr = "s3"))]_vars

\* PutObject has read the error of the goroutine's failed read
C17_Witness ==
    /\ backupRun.err = "read"
    /\ backupRun.pwErr = "read"
    /\ backupRun.lastRead = "read"
    /\ backupRun.uploadErr = "body"

\* PutObject has failed before it read the end of the data
SinkFailedEarly ==
    /\ backupRun.main \in {"wait", "result", "returned"}
    /\ backupRun.uploadErr = "s3"
    /\ backupRun.lastRead # "eof"

\* the read end is closed, the goroutine has finished, the child has exited
Unwound ==
    /\ backupRun.prClosed
    /\ backupRun.gz = "finished"
    /\ backupRun.src = "exited"

\* C18: once PutObject has failed before the end of the data, the pipeline
\* unwinds: until the read end is closed, the goroutine has finished and the
\* child has exited, some step of the pipeline can be taken.
C18_AsStated ==
    SinkFailedEarly => (Unwound \/ ENABLED NextPipe)

\* after an early failure of PutObject, RunBackup is in cmdArchive.Wait, the
\* child is blocked writing to its full stdout pipe, the goroutine is blocked
\* writing to the pipe that nobody reads, and the read end is still open
C18_Stuck ==
    /\ SinkFailedEarly
    /\ backupRun.main = "wait"
    /\ backupRun.src = "running"
    /\ backupRun.srcLeft > 0
    /\ backupRun.stdoutBuf = StdoutCap
    /\ backupRun.gz \in {"write", "flush"}
    /\ ~backupRun.prClosed
    /\ ~ENABLED NextPipe

\* C19: cmdArchive.Wait returns in no state where PutObject has not returned:
\* the step that completes Wait starts with RunBackup past PutObject, whose
\* outcome is settled (nil with the whole Body read, or an error), and
\* until then the child is not waited for and its stdout is not closed.
C19_WaitAfterPut ==
    /\ [](backupRun.main = "put" =>
             /\ ~backupRun.waited
             /\ ~backupRun.stdoutClosed
             /\ backupRun.result = "none")
    /\ [][(~backupRun.waited /\ backupRun'.waited) =>
             /\ backupRun.main = "wait"
             /\ backupRun'.main = "result"
             /\ backupRun'.uploadErr = backupRun.uploadErr
             /\ (backupRun.uploadErr = "nil" => backupRun.lastRead = "eof")
             /\ backupRun.src = "exited"]_vars

\* Wait has returned after a PutObject that read the whole Body and succeeded
C19_Witness ==
    /\ backupRun.waited
    /\ backupRun.main = "returned"
    /\ backupRun.uploadErr = "nil"
    /\ backupRun.lastRead = "eof"

\* C20: RunBackup returns the error of PutObject whenever PutObject failed,
\* whatever the exit status of git archive, whose failure is then only
\* logged; when PutObject succeeded and git archive failed it returns the
\* error of git archive, and nil only when both succeeded.
C20_ErrorPriority ==
    /\ [](backupRun.waited =>
            /\ (backupRun.uploadErr # "nil" =>
                   /\ backupRun.result = "upload"
                   /\ backupRun.alsoLogged = backupRun.archiveErr)
            /\ (backupRun.uploadErr = "nil" /\ backupRun.archiveErr =>
                   /\ backupRun.result = "archive"
                   /\ ~backupRun.alsoLogged)
            /\ (backupRun.uploadErr = "nil" /\ ~backupRun.archiveErr =>
                   backupRun.result = "nil"))
    /\ [][(~backupRun.waited /\ backupRun'.waited) =>
             backupRun'.archiveErr = backupRun.srcErr]_vars

\* C20 as stated: a failure of git archive is never the error RunBackup returns
C20_AsStated ==
    backupRun.result # "archive"

\* both PutObject and git archive have failed: the upload error is returned
C20_Witness ==
    /\ backupRun.main = "returned"
    /\ backupRun.uploadErr # "nil"
    /\ backupRun.archiveErr
    /\ backupRun.alsoLogged
    /\ backupRun.result = "upload"

\* C21: when RunBackup has returned, the read end of the pipe is closed and
\* the goroutine has closed the write end.
C21_AsStated ==
    backupRun.main = "returned" =>
        /\ backupRun.prClosed
        /\ backupRun.gz = "finished"
        /\ backupRun.pwErr # "open"

\* RunBackup has returned an upload error with the write end still open: the
\* goroutine is still in io.Copy or in its deferred function
C21_StillOpen ==
    /\ backupRun.main = "returned"
    /\ backupRun.prClosed
    /\ backupRun.result = "upload"
    /\ backupRun.pwErr = "open"
    /\ backupRun.gz # "finished"

\* C22: when handleCommitCheck has logged the outcome of RunBackup and
\* released the token, the goroutine of that archive job has finished.
C22_AsStated ==
    (inv[1].pc = "done" /\ backupRun.main = "returned") =>
        backupRun.gz = "finished"

\* the cycle is over and the token free while the goroutine of its archive
\* job has not yet closed the write end
C22_StillRunning ==
    /\ inv[1].pc = "done"
    /\ inv[1].outcome = "backup_failed"
    /\ processingMu = "Idle"
    /\ backupRun.main = "returned"
    /\ backupRun.gz # "finished"

\* chunks between the goroutine and PutObject: the one a write to pw holds
InPipe == IF backupRun.gz = "write" THEN 1 ELSE 0

\* C23: the pipe holds at most the chunk of the write in progress; a write to
\* it (of a chunk or of the trailer) returns only when PutObject has read it,
\* or fails once the read end is closed; while it is blocked the goroutine
\* reads nothing from git archive, whose output not yet read by PutObject is
\* at most what its stdout pipe holds plus that chunk, and which writes only
\* while its stdout pipe has room.
C23_Backpressure ==
    /\ [](backupRun.main # "idle" =>
            /\ InPipe <= 1
            /\ backupRun.stdoutBuf <= StdoutCap
            /\ (backupRun.err = "nil" =>
                  (backupRun.total - backupRun.srcLeft) - backupRun.got
                      = backupRun.stdoutBuf + InPipe))
    /\ [][/\ (backupRun.gz = "write" /\ backupRun'.gz # "write") =>
                \/ (backupRun.main = "put" /\ ~backupRun.prClosed
                      /\ backupRun'.got = backupRun.got + 1 /\ backupRun'.gz = "read")
                \/ (backupRun.prClosed /\ backupRun'.err = "write" /\ backupRun'.gz = "close")
          /\ (backupRun.gz = "flush" /\ backupRun'.gz # "flush") =>
                \/ (backupRun.main = "put" /\ ~backupRun.prClosed /\ backupRun'.trailer)
                \/ (backupRun.prClosed /\ backupRun'.err # "nil")
          /\ (backupRun'.stdoutBuf < backupRun.stdoutBuf) => backupRun.gz = "read"
          /\ (backupRun'.srcLeft < backupRun.srcLeft) => backupRun.stdoutBuf < StdoutCap]_vars

\* PutObject is reading but has not taken the chunk the goroutine is writing:
\* the stdout pipe is full and git archive has output left
C23_Witness ==
    /\ backupRun.main = "put"
    /\ backupRun.gz = "write"
    /\ backupRun.stdoutBuf = StdoutCap
    /\ backupRun.srcLeft > 0
    /\ backupRun.src = "running"

\* C24: the goroutine closes the write end only after gzipWriter.Close() has
\* returned, with or without an error of io.Copy: the close of the write end
\* follows the position after gzipWriter.Close(), which is reached only from
\* that call; when the write end is closed without an error PutObject has
\* read the trailer and all that git archive wrote, and when the flush failed
\* the write end is closed with an error.
C24_FinalizeBeforeClose ==
    /\ [](backupRun.main # "idle" =>
            /\ (backupRun.pwErr # "open" <=> backupRun.gz = "finished")
            /\ (backupRun.pwErr = "eof" =>
                  /\ backupRun.trailer
                  /\ backupRun.stdoutBuf = 0
                  /\ backupRun.got = backupRun.total - backupRun.srcLeft)
            /\ (backupRun.gz = "finished" /\ ~backupRun.trailer => backupRun.pwErr # "eof"))
    /\ [][/\ (backupRun.gz # "finished" /\ backupRun'.gz = "finished") => backupRun.gz = "closew"
          /\ (backupRun.gz # "closew" /\ backupRun'.gz = "closew") =>
                \/ (backupRun.gz = "flush" /\ backupRun'.trailer /\ backupRun'.err = backupRun.err)
                \/ (backupRun.gz = "flush" /\ backupRun.prClosed /\ backupRun'.err # "nil")
                \/ (backupRun.gz = "close" /\ backupRun.err = "write")
          /\ (backupRun.gz \in {"read", "write"} /\ backupRun'.gz \notin {"read", "write"}) =>
                backupRun'.gz = "close"]_vars

\* the error path: io.Copy failed, gzipWriter.Close() still flushed the
\* trailer to PutObject, and then the write end was closed with the error
C24_Witness ==
    /\ backupRun.gz = "finished"
    /\ backupRun.trailer
    /\ backupRun.err = "read"
    /\ backupRun.pwErr = "read"

\* the key the specification gives for prefix P and commit H
KeyAsSpecified(P, H) ==
    LET cs       == Chars(P)
        nonSlash == {k \in 1..Len(cs) : cs[k] # "/"}
    IN  IF nonSlash = {}
        THEN "commit-" \o H \o ".tar.gz"
        ELSE Str(SubSeq(cs, MinOf(nonSlash), MaxOf(nonSlash))) \o "/commit-" \o H \o ".tar.gz"

\* C25: the key RunBackup builds for commit H under the configured prefix is
\* commit-H.tar.gz when the prefix is empty or made of slashes only, and
\* otherwise the prefix without its leading and trailing slashes, a slash and
\* commit-H.tar.gz; every key put in the store is of that form.
C25_KeyConstruction ==
    /\ \A P \in Prefixes : \A H \in Commits : S3Key(P, H) = KeyAsSpecified(P, H)
    /\ \A i \in InvIds :
          /\ inv[i].key # "" => inv[i].key = KeyAsSpecified(prefix, inv[i].cur)
          /\ \A k \in 1..Len(inv[i].putKeys) :
                inv[i].putKeys[k] = KeyAsSpecified(prefix, inv[i].cur)
    /\ store \subseteq {KeyAsSpecified(prefix, H) : H \in Commits}

\* an object was stored under a prefix with slashes to trim and one to keep
C25_Witness ==
    /\ prefix = "/a/b/"
    /\ store = {"a/b/commit-c0ffee.tar.gz"}

\* a step of the event loop that arms the debounce timer
Armed == lastEvent' # lastEvent \/ burstLen' # burstLen

\* a step in which a timer expires and spawns handleCommitCheck
Spawned == \E i \in InvIds : inv[i].pc = "unborn" /\ inv'[i].pc = "start"

\* C26: a timer stopped by an event never invokes handleCommitCheck: at most
\* one timer is pending, the one armed last and the one the variable refers
\* to, and a callback is spawned only by that timer, at its deadline; an
\* event arms a new timer whether or not a callback is in progress (it
\* touches neither the token nor the callbacks), and it stops the pending one.
C26_CancelledNeverFires ==
    /\ [](/\ timers \subseteq {debounceTimer}
          /\ (debounceTimer # NoTimer => debounceTimer = lastEvent + DebounceSecs))
    /\ [][/\ Spawned =>
                /\ debounceTimer \in timers
                /\ debounceTimer <= now
                /\ timers' = {}
                /\ ~Armed
          /\ Armed =>
                /\ timers' = {now + DebounceSecs}
                /\ debounceTimer' = now + DebounceSecs
                /\ inv' = inv
                /\ processingMu' = processingMu]_vars

\* C26 as stated: no event arms a timer while a callback is in progress
C26_AsStated ==
    [][Armed => \A i \in InvIds : ~InFlight(i)]_vars

\* an event has just armed a timer while a callback holds the token
C26_Witness ==
    /\ \E i \in InvIds : InCritical(i)
    /\ lastEvent = now
    /\ timers = {now + DebounceSecs}
    /\ debounceTimer = now + DebounceSecs

\* C30: a callback inside RunBackup (in PutObject or in cmdArchive.Wait)
\* holds the token; nothing but the return of that call moves it on or frees
\* the token, whatever time passes and whatever events arrive; and every
\* callback that starts meanwhile is dropped, changing neither lastKnownHash
\* nor the store.
C30_StalledBackup ==
    /\ [](\A i \in InvIds : InBackup(i) => processingMu = "Running")
    /\ [][\A i \in InvIds :
            /\ (InBackup(i) /\ inv'[i] # inv[i]) =>
                  \/ (inv[i].pc = "put" /\ inv'[i].pc = "wait"
                        /\ inv'[i].putKeys = Append(inv[i].putKeys, inv[i].key)
                        /\ now' = now)
                  \/ (inv[i].pc = "wait" /\ inv'[i].pc = "done"
                        /\ inv'[i].calls = Append(inv[i].calls, "wait")
                        /\ now' = now)
            /\ (InBackup(i) /\ inv'[i].pc # "done") => processingMu' = "Running"
            /\ \A j \in InvIds :
                  (InBackup(i) /\ inv'[i] = inv[i] /\ inv[j].pc = "start" /\ inv'[j] # inv[j]) =>
                      /\ inv'[j].pc = "done"
                      /\ inv'[j].outcome = "dropped"
                      /\ inv'[j].calls = <<>>
                      /\ lastKnownHash' = lastKnownHash
                      /\ store' = store
                      /\ processingMu' = "Running"]_vars

\* at the last second of the run a callback is still in PutObject, and the
\* callback of a later timer was dropped
C30_Witness ==
    /\ now = MaxTime
    /\ \E i, j \in InvIds :
          /\ inv[i].pc = "put"
          /\ inv[j].pc = "done"
          /\ inv[j].outcome = "dropped"
    /\ processingMu = "Running"

\* a step in which the event loop has received an event without Write, Create
\* or Rename
IgnoredEvent ==
    /\ watcher.pc = "loop"
    /\ watcher'.lastOp # watcher.lastOp
    /\ watcher'.lastOp \cap {"Write", "Create", "Rename"} = {}

\* C27: an event whose Op has none of Write, Create, Rename changes nothing
\* of the debounce state: no timer is armed or stopped, the time of the last
\* qualifying event stays, and nothing else of the program changes; no timer
\* is pending and no callback is spawned before the first qualifying event,
\* and a callback is spawned only DebounceSecs after a qualifying one.
C27_NonQualifying ==
    /\ [](watcher.pc # "exited" /\ lastEvent = -1 =>
             /\ timers = {}
             /\ debounceTimer = NoTimer
             /\ \A i \in InvIds : inv[i].pc = "unborn")
    /\ [][/\ IgnoredEvent =>
                /\ timers' = timers
                /\ debounceTimer' = debounceTimer
                /\ lastEvent' = lastEvent
                /\ burstLen' = burstLen
                /\ firedFor' = firedFor
                /\ inv' = inv
                /\ now' = now
                /\ lastKnownHash' = lastKnownHash
                /\ processingMu' = processingMu
          /\ (watcher.pc = "loop" /\ watcher'.lastOp # watcher.lastOp /\ ~IgnoredEvent) =>
                /\ timers' = {now + DebounceSecs}
                /\ lastEvent' = now
          /\ Spawned => (lastEvent >= 0 /\ now = lastEvent + DebounceSecs)]_vars

\* the loop has received only events without Write, Create or Rename, the
\* last one a Remove with Chmod, and the clock has run out with no timer armed
C27_Witness ==
    /\ watcher.pc = "loop"
    /\ watcher.lastOp = {"Remove", "Chmod"}
    /\ lastEvent = -1
    /\ now = MaxTime
    /\ timers = {}
    /\ \A i \in InvIds : inv[i].pc = "unborn"

\* C28: Start enters its event loop only when the .git directory exists,
\* the watcher was made, and at least one watch was added.
C28_AsStated ==
    watcher.pc = "loop" =>
        /\ GitDir \in watcher.dirs
        /\ watcher.newOk
        /\ watcher.watches # {}

\* Start is in its event loop without a single watch, after an error for
\* each path to watch
C28_NoWatch ==
    /\ watcher.pc = "loop"
    /\ watcher.watches = {}
    /\ watcher.watchErrors = Len(pathsToWatch)

\* C29: once Start is in its event loop the set of watches never changes: no
\* event adds or removes one, and a directory made after the start of the
\* loop is not watched although its Create event arrives.
C29_WatchSetFixed ==
    /\ [](watcher.pc = "loop" =>
             /\ watcher.watches \subseteq StartDirs
             /\ FeatureDir \notin watcher.watches)
    /\ [][watcher.pc = "loop" =>
             /\ watcher'.pc = "loop"
             /\ watcher'.watches = watcher.watches]_vars

\* the Create event of the new directory has arrived and has armed the
\* timer; the directory is not watched
C29_Witness ==
    /\ watcher.pc = "loop"
    /\ FeatureDir \in watcher.dirs
    /\ HeadsDir \in watcher.watches
    /\ watcher.lastOp = {"Create"}
    /\ lastEvent = now
    /\ FeatureDir \notin watcher.watches

\* C38: with an empty bucket name RunBackup returns its error at once: the
\* cycle goes from the call straight to its end as a failed backup, no
\* archive job is ever started (no git archive process, no pipe, no
\* goroutine), no key is built, no put is issued and the store stays empty.
C38_EmptyBucket ==
    /\ [](bucket = "" =>
            /\ store = {}
            /\ \A i \in InvIds :
                  /\ ~InBackup(i)
                  /\ "put" \notin Elems(inv[i].calls)
                  /\ inv[i].putKeys = <<>>
                  /\ inv[i].key = "")
    /\ [][\A i \in InvIds :
            (bucket = "" /\ inv[i].pc = "backup" /\ inv'[i] # inv[i]) =>
                /\ inv'[i].pc = "done"
                /\ inv'[i].outcome = "backup_failed"
                /\ inv'[i].calls = Append(inv[i].calls, "backup")
                /\ lastKnownHash' = lastKnownHash
                /\ processingMu' = "Idle"]_vars

\* a cycle for a valid commit has ended at the bucket check
C38_Witness ==
    /\ bucket = ""
    /\ \E i \in InvIds :
          /\ inv[i].pc = "done"
          /\ inv[i].outcome = "backup_failed"
          /\ inv[i].calls = <<"query", "fetch", "validate", "backup">>
    /\ store = {}

\* C37: a cycle that is calling RunBackup does so for the commit id its own
\* query returned: that id is not empty, it was the head and differed from
\* lastKnownHash when the query ran, the key of the put is built from it,
\* and lastKnownHash is that id from the query to the end of RunBackup, even
\* when the head moves on meanwhile.
C37_PutForOwnCommit ==
    /\ [](\A i \in InvIds :
            /\ inv[i].pc \in {"fetch", "validate", "backup", "put", "wait"} =>
                  /\ inv[i].cur \in Commits
                  /\ inv[i].cur # inv[i].orig
                  /\ lastKnownHash = inv[i].cur
            /\ InBackup(i) => inv[i].key = S3Key(prefix, inv[i].cur))
    /\ [][\A i \in InvIds :
            /\ (inv[i].pc = "query" /\ inv'[i].pc = "fetch") =>
                  /\ inv'[i].cur = head
                  /\ inv'[i].cur # lastKnownHash
                  /\ inv'[i].orig = lastKnownHash
                  /\ lastKnownHash' = inv'[i].cur
            /\ (inv[i].pc \in {"fetch", "validate", "backup", "put", "wait"} /\ inv'[i].pc # "done") =>
                  /\ inv'[i].cur = inv[i].cur
                  /\ inv'[i].orig = inv[i].orig
            /\ (inv[i].pc = "put" /\ inv'[i].pc = "wait") =>
                  inv'[i].putKeys = <<S3Key(prefix, inv[i].cur)>>]_vars

\* a put is in progress for the commit of its cycle while the head has moved on
C37_Witness ==
    \E i \in InvIds :
        /\ inv[i].pc = "put"
        /\ inv[i].cur = "c0ffee"
        /\ head # inv[i].cur
        /\ lastKnownHash = inv[i].cur

\* C39: the write end is closed with the error of io.Copy when the copy
\* failed (a failed read or a failed write), otherwise with the error of
\* gzipWriter.Close() when the flush failed, otherwise without an error: once
\* err holds the error of the copy no later step changes it, and a flush that
\* fails after a good copy leaves its error in err and on the write end.
C39_CloseError ==
    /\ [](backupRun.main # "idle" =>
            /\ (backupRun.gz = "finished" =>
                  backupRun.pwErr = IF backupRun.err = "nil" THEN "eof" ELSE backupRun.err)
            /\ (backupRun.pwErr = "eof" => backupRun.trailer)
            /\ (backupRun.err = "gzclose" => backupRun.gz \in {"closew", "finished"}))
    /\ [][/\ (backupRun.err \in {"read", "write"}) => backupRun'.err = backupRun.err
          /\ (backupRun.err = "gzclose") => backupRun'.err = "gzclose"
          /\ (backupRun.gz = "flush" /\ backupRun'.gz = "closew" /\ ~backupRun'.trailer) =>
                backupRun'.err = IF backupRun.err = "nil" THEN "gzclose" ELSE backupRun.err
          /\ (backupRun.gz \in {"read", "write"} /\ backupRun'.gz = "close") =>
                backupRun'.err \in {"nil", "read", "write"}]_vars

\* the copy ended well, the flush of gzipWriter.Close() failed on the closed
\* read end, and the write end was closed with that error
C39_Witness ==
    /\ backupRun.gz = "finished"
    /\ backupRun.err = "gzclose"
    /\ backupRun.pwErr = "gzclose"
    /\ ~backupRun.trailer

\* C34: when PutObject has returned an error and RunBackup is in
\* cmdArchive.Wait, git archive has exited or can still get on: it can write,
\* exit, or the goroutine can take a step that makes room for its output.
C34_AsStated ==
    (backupRun.main = "wait" /\ backupRun.uploadErr # "nil" /\ backupRun.src = "running") =>
        ENABLED (SourceWrite \/ SourceExit \/ GzRead \/ GzWriteFails \/ GzClose \/ GzCloseWithError)

\* RunBackup waits for a git archive that has more to write than its stdout
\* pipe and the goroutine can take, after PutObject has failed
C34_Deadlock ==
    /\ backupRun.main = "wait"
    /\ backupRun.uploadErr = "s3"
    /\ backupRun.src = "running"
    /\ backupRun.srcLeft > 0
    /\ backupRun.stdoutBuf = StdoutCap
    /\ backupRun.gz = "write"
    /\ backupRun.err = "nil"
    /\ ~backupRun.prClosed
    /\ ~ENABLED NextPipe

\* the chunks git archive has written to its stdout, in the order it wrote them
Produced == [i \in 1..(backupRun.total - backupRun.srcLeft) |-> i]

\* C35: when RunBackup returns nil, PutObject has read the compressed form of
\* every chunk git archive wrote, each once and in the order written, and the
\* gzip trailer after them, and it saw end-of-data only after the goroutine had
\* closed the gzip writer; at every moment what it has read is a prefix of what
\* git archive has written.
C35_StreamIntegrity ==
    /\ [](backupRun.main # "idle" =>
            /\ Len(backupRun.read) <= Len(Produced)
            /\ \A i \in 1..Len(backupRun.read) : backupRun.read[i] = i
            /\ (backupRun.result = "nil" =>
                  /\ backupRun.src = "exited"
                  /\ backupRun.read = Produced
                  /\ backupRun.trailer
                  /\ backupRun.lastRead = "eof"))
    /\ [][(backupRun.main # "idle" /\ backupRun'.main # "idle"
             /\ backupRun.lastRead # "eof" /\ backupRun'.lastRead = "eof") =>
                /\ backupRun.gz = "finished"
                /\ backupRun.trailer
                /\ backupRun.read = Produced
                /\ backupRun.src = "exited"]_vars

\* RunBackup has returned nil for a git archive that wrote MaxChunks chunks
C35_Witness ==
    /\ backupRun.main = "returned"
    /\ backupRun.result = "nil"
    /\ backupRun.total = MaxChunks
    /\ Len(backupRun.read) = MaxChunks

\* a step that starts a commit check or takes one further (the return of a
\* finished callback is not one)
ProgramStep ==
    \/ \E d \in timers : TimerFire(d)
    \/ \E i \in InvIds : TryLock(i)
    \/ \E i \in InvIds : Query(i)
    \/ \E i \in InvIds : Fetch(i)
    \/ \E i \in InvIds : ValidateStep(i)
    \/ \E i \in InvIds : BackupStart(i)
    \/ \E i \in InvIds : PutObject(i)
    \/ \E i \in InvIds : WaitArchive(i)

\* the head is a commit, a settle signal has fired since the last commit
\* landed, no timer is pending, every invocation there was has ended and is
\* still on record, and no call of a collaborator has failed (every query
\* returned the head)
Settled ==
    /\ head # NoHash
    /\ timers = {}
    /\ window = EmptyWindow
    /\ \A i \in InvIds : inv[i].pc = "done"
    /\ \A i \in InvIds :
          /\ inv[i].outcome \notin {"query_error", "empty_head", "fetch_error", "backup_failed"}
          /\ (inv[i].pc = "done" /\ inv[i].outcome # "dropped") => inv[i].cur # NoHash

\* C33 as stated: once the events have stopped, with every call successful,
\* lastKnownHash is the head, also when the settle signal of the last commit
\* was dropped.
C33_AsStated == Settled => lastKnownHash = head

\* C33: once the events have stopped with every call successful,
\* lastKnownHash is the head unless a settle signal was dropped; a dropped
\* invocation arms no timer and changes neither lastKnownHash nor the token,
\* lastKnownHash changes only in the query or fetch step of a running
\* invocation, a query that returns the head leaves lastKnownHash equal to
\* it, and in the settled state no step of the program is enabled, so
\* a commit whose settle signal was dropped stays unprocessed until the next
\* qualifying event.
C33_CatchUpNeedsSettle ==
    /\ []((Settled /\ lastKnownHash # head) =>
            /\ \E i \in InvIds : inv[i].outcome = "dropped"
            /\ ~ENABLED ProgramStep)
    /\ [][/\ \A i \in InvIds :
                (inv[i].pc = "start" /\ inv'[i].outcome = "dropped") =>
                   /\ timers' = timers
                   /\ debounceTimer' = debounceTimer
                   /\ lastKnownHash' = lastKnownHash
                   /\ processingMu' = processingMu
          /\ (lastKnownHash' # lastKnownHash) =>
                \E i \in InvIds : inv[i].pc \in {"query", "fetch"} /\ inv'[i] # inv[i]
          /\ \A i \in InvIds :
                (inv[i].pc = "query" /\ inv'[i].cur = head /\ head # NoHash) =>
                   lastKnownHash' = head]_vars

\* commit def456 landed while the invocation for c0ffee was running, its
\* settle signal was dropped, the first invocation has ended with a backup of
\* c0ffee, and nothing is left to run
C33_Witness ==
    /\ Settled
    /\ head = "def456"
    /\ lastKnownHash = "c0ffee"
    /\ \E i \in InvIds : inv[i].outcome = "dropped"
    /\ \E i \in InvIds : inv[i].outcome = "backup_ok" /\ inv[i].cur = "c0ffee"
    /\ ~ENABLED ProgramStep

\* C32: the step of Start that queries the initial commit leaves in
\* lastKnownHash what the query returned, and the empty string when the query
\* failed, and the rest of the startup does not touch it; a cycle that finds
\* lastKnownHash empty and whose query returns a non-empty head stores that
\* hash in lastKnownHash and goes on to fetch its change set.
C32_InitialHash ==
    [][/\ (watcher.pc = "hash" /\ watcher' # watcher) =>
             /\ watcher'.pc = "new"
             /\ lastKnownHash' = IF watcher'.initialErr THEN NoHash ELSE watcher'.initial
             /\ ~watcher'.initialErr => watcher'.initial \in {head, NoHash}
       /\ (watcher.pc \in {"stat", "new", "add"}) => lastKnownHash' = lastKnownHash
       /\ \A i \in InvIds :
             (/\ inv[i].pc = "query"
              /\ inv'[i] # inv[i]
              /\ lastKnownHash = NoHash
              /\ inv'[i].cur # NoHash) =>
                /\ inv'[i].cur = head
                /\ inv'[i].pc = "fetch"
                /\ inv'[i].orig = NoHash
                /\ lastKnownHash' = inv'[i].cur]_vars

\* the initial query failed with abc123 the head, and the first cycle has
\* taken abc123 for a new commit
C32_Witness ==
    /\ watcher.pc = "loop"
    /\ watcher.initialErr
    /\ head = "abc123"
    /\ lastKnownHash = "abc123"
    /\ \E i \in InvIds :
          inv[i].pc = "fetch" /\ inv[i].cur = "abc123" /\ inv[i].orig = NoHash

\* the initial query returned the head, the head is still that commit and
\* lastKnownHash holds it, and no cycle is past its query
HeadKnownFromStart ==
    /\ watcher.pc = "loop"
    /\ watcher.initial # NoHash
    /\ head = watcher.initial
    /\ lastKnownHash = watcher.initial
    /\ store = {}
    /\ \A i \in InvIds :
          /\ inv[i].pc \in {"unborn", "start", "query", "done"}
          /\ inv[i].outcome \in {"none", "dropped", "query_error", "no_new_commit", "empty_head"}
          /\ inv[i].putKeys = <<>>
          /\ \A k \in 1..Len(inv[i].calls) : inv[i].calls[k] = "query"

\* C36: when the initial query returned a non-empty H, then from the moment
\* Start enters its event loop and for as long as the head stays H, no cycle
\* fetches a change set, validates or calls RunBackup, nothing is stored and
\* lastKnownHash stays H, whatever events arrive and timers fire.
C36_NoBackupOfStartHead ==
    [][/\ (watcher.pc = "add" /\ watcher'.pc = "loop"
             /\ watcher.initial # NoHash /\ head' = watcher.initial) => HeadKnownFromStart'
       /\ (watcher.pc = "hash" /\ watcher'.pc = "new" /\ watcher'.initial # NoHash) =>
             /\ watcher'.initial = head
             /\ lastKnownHash' = head
       /\ (HeadKnownFromStart /\ head' = head) => HeadKnownFromStart']_vars

\* abc123 was the head at the start, events have arrived and two cycles have
\* run, each ending after its query, and nothing was stored
C36_Witness ==
    /\ HeadKnownFromStart
    /\ head = "abc123"
    /\ \A i \in InvIds : inv[i].pc = "done"
    /\ \E i \in InvIds : inv[i].outcome = "no_new_commit" /\ inv[i].cur = "abc123"
    /\ \E i \in InvIds : inv[i].outcome = "dropped"

\* the path list the changes of a commit stand for: the new path of a rename
\* or a copy, nothing for a deletion, the path of every other change, in the
\* order of the changes
RECURSIVE Listed(_)
Listed(changes) ==
    IF changes = <<>>
    THEN <<>>
    ELSE LET c == Head(changes)
         IN  (IF c.status = <<"D">> THEN <<>> ELSE <<c.path>>) \o Listed(Tail(changes))

\* C31: when GetChangedFilesInCommit returns without an error, the list it
\* returns holds, in the order of the lines of git show, the new path of every
\* rename and copy and the path of every other change that is not a deletion.
C31_AsStated ==
    (gitShow.pc = "done" /\ ~gitShow.err) => gitShow.files = Listed(gitShow.changes)

\* the commit modifies the file "d.flp " (a name that ends in a space) and the
\* call returns the path "d.flp"
C31_TrimmedPath ==
    /\ gitShow.pc = "done"
    /\ ~gitShow.err
    /\ gitShow.changes = <<[status |-> <<"M">>, old |-> <<>>, path |-> <<"d", ".", "f", "l", "p", " ">>]>>
    /\ gitShow.out = <<<<"M">> \o <<Tab>> \o <<"d", ".", "f", "l", "p", " ">>>>
    /\ gitShow.files = <<<<"d", ".", "f", "l", "p">>>>
=============================================================================
